---- MODULE Spec2Model ----
(***************************************************************************)
(* Simulated-annealing CVRP engine of sa_cvrp_logic.py                     *)
(* (class SimulatedAnnealingCVRP): distance table, route builder, sweep    *)
(* constructor, the five neighbourhood operators, the Metropolis rule and  *)
(* the annealing loop of ejecutar.                                         *)
(*                                                                         *)
(* Numbers.  The program computes with Python floats.  The model computes  *)
(* with integers on inputs where the program's results are exact:          *)
(* coordinates are drawn from Lugares, a set of places whose pairwise      *)
(* Euclidean distances are all integers (Sqrt below is defined only on     *)
(* perfect squares), demands and capacities are integers, and a            *)
(* temperature is the exact fraction num/den.                              *)
(***************************************************************************)
EXTENDS Integers, Sequences, FiniteSets, TLC

VARIABLES
    pc,                  \* where the engine is: see the specifications below
    \* ---- fields of the engine (self.*)
    puntos,              \* sequence of Punto records [id, latitud, longitud, demanda]
    capacidad_vehiculo,
    num_vehiculos,
    punto_inicio_id,
    matriz_distancias,   \* indexed 0..n-1 by list position
    temperatura_inicial, \* a temperature is the fraction <<num, den>>
    temperatura_minima,
    factor_enfriamiento,
    iteraciones_por_temperatura,
    historial_costos,
    historial_temperaturas,
    mejor_solucion,      \* None before the first run, then a sequence of Ruta
    mejor_costo,         \* float('inf') before the first run
    \* ---- locals of ejecutar
    callback_progreso,   \* TRUE: a callback was passed
    solucion_actual,
    costo_actual,
    temperatura,
    iteracion,
    total_iteraciones,
    paso,                \* trials done in the current stage (the inner for)
    llamadas,            \* the calls made to callback_progreso, in order
    \* ---- history variable
    costo_minimo_visto,  \* least cost of a solution that has been the current one
    \* ---- the call under way
    entrada,             \* argument of the method under call (single-method specifications);
                         \* the values earlier runs returned (repeated runs)
    salida               \* value the method under call returned

config == <<puntos, capacidad_vehiculo, num_vehiculos, punto_inicio_id,
            matriz_distancias, temperatura_inicial, temperatura_minima,
            factor_enfriamiento, iteraciones_por_temperatura>>

campos == <<historial_costos, historial_temperaturas, mejor_solucion, mejor_costo>>

locales == <<callback_progreso, solucion_actual, costo_actual, temperatura,
             iteracion, total_iteraciones, paso, llamadas, costo_minimo_visto>>

vars == <<pc, config, campos, locales, entrada, salida>>

(***************************************************************************)
(* Bounds of the model                                                     *)
(***************************************************************************)
\* most non-depot points of a configuration of the sweep specification
MaxPuntosSweep == 3
\* largest fleet size
MaxVehiculos == 3
\* largest iteraciones_por_temperatura
MaxIteraciones == 2
\* most calls of ejecutar on one engine
MaxCorridas == 2

\* Places <<latitud, longitud>>: every two of them are an integer apart
\* (all lie on the axes lat = 0 and lon = 0, and 5-12-13, 9-12-15 are
\* Pythagorean).  Seen from the depot <<0, 0>> their angles are 0, pi and
\* -pi/2; seen from <<0, -9>> the first two have the same angle 0 and the
\* distances 14 and 4.
Lugares == { <<0, 5>>, <<0, -5>>, <<-12, 0>> }
LugaresDeposito == { <<0, 0>>, <<0, -9>> }
\* demands of the points to visit, and vehicle capacities
Demandas == {1, 2}
Capacidades == {1, 2, 3}

(***************************************************************************)
(* Generic helpers                                                         *)
(***************************************************************************)
\* the element of a singleton.  Valor({F(x) : x \in {e}}) is F(e), with e
\* evaluated once however often F uses it
Valor(S) == CHOOSE v \in S : TRUE

\* sum(...) of a sequence of numbers
RECURSIVE SumSeq(_)
SumSeq(s) ==
    Valor({ IF v = <<>> THEN 0 ELSE v[1] + SumSeq(Tail(v)) : v \in {s} })

\* math.sqrt on the perfect squares the model's inputs produce
Sqrt(x) == CHOOSE r \in 0..x : r * r = x

\* the interior of an id sequence: puntos_ids[1:-1]
Interior(ids) == IF Len(ids) <= 2 THEN <<>> ELSE SubSeq(ids, 2, Len(ids) - 1)

\* next(p for p in self.puntos if p.id == pid): the first point carrying pid
PuntoDeId(pts, pid) ==
    Valor({ pts[CHOOSE k \in 1..Len(pts) :
                    pts[k].id = v /\ \A j \in 1..(k - 1) : pts[j].id # v] :
            v \in {pid} })

(***************************************************************************)
(* _calcular_matriz_distancias: entry [i][j] is the planar distance times  *)
(* 111 between the points at list positions i and j (0-based).             *)
(***************************************************************************)
DistanciaPlana(p, q) ==
    Sqrt((q.latitud - p.latitud) * (q.latitud - p.latitud)
         + (q.longitud - p.longitud) * (q.longitud - p.longitud)) * 111

calcular_matriz_distancias(pts) ==
    [i \in 0..(Len(pts) - 1) |->
        [j \in 0..(Len(pts) - 1) |->
            IF i # j THEN DistanciaPlana(pts[i + 1], pts[j + 1]) ELSE 0]]

(***************************************************************************)
(* _crear_ruta.  The distance loop reads matriz_distancias[a][b] with the  *)
(* ids a, b of consecutive points as the indices.  A numpy index k of an   *)
(* axis of length n is valid for -n <= k < n (a negative k counts from the *)
(* end); any other k raises IndexError.                                    *)
(***************************************************************************)
IndiceValido(m, k) ==
    LET n == Cardinality(DOMAIN m) IN -n <= k /\ k < n

IndiceNumpy(m, k) ==
    LET n == Cardinality(DOMAIN m) IN IF k < 0 THEN k + n ELSE k

\* _crear_ruta raises IndexError on this id sequence
crear_ruta_lanza(m, ids) ==
    \E k \in 1..(Len(ids) - 1) :
        ~IndiceValido(m, ids[k]) \/ ~IndiceValido(m, ids[k + 1])

\* matriz_distancias[a][b]; where the read raises (crear_ruta_lanza) the
\* route has no distance and the 0 given here is never used
LeerMatriz(m, a, b) ==
    IF IndiceValido(m, a) /\ IndiceValido(m, b)
    THEN m[IndiceNumpy(m, a)][IndiceNumpy(m, b)]
    ELSE 0

DistanciaRuta(m, ids) ==
    SumSeq([k \in 1..(Len(ids) - 1) |-> LeerMatriz(m, ids[k], ids[k + 1])])

CargaRuta(pts, ids) ==
    SumSeq([k \in 1..Len(Interior(ids)) |-> PuntoDeId(pts, Interior(ids)[k]).demanda])

\* tiempo = distancia / 2.64, kept as the exact fraction <<num, den>>
crear_ruta(pts, m, ids) ==
    Valor({ [puntos    |-> puntos_ids,
             distancia |-> DistanciaRuta(m, puntos_ids),
             carga     |-> CargaRuta(pts, puntos_ids),
             tiempo    |-> <<DistanciaRuta(m, puntos_ids) * 100, 264>>] :
            puntos_ids \in {ids} })

\* calcular_costo_total
calcular_costo_total(rutas) ==
    SumSeq([k \in 1..Len(rutas) |-> rutas[k].distancia])

(***************************************************************************)
(* generar_solucion_inicial (sweep heuristic)                              *)
(***************************************************************************)
\* The order of math.atan2(dy, dx) on integer vectors, by half plane:
\*   0: dy < 0, angle in (-pi, 0)      1: dy = 0, dx >= 0, angle 0
\*   2: dy > 0, angle in (0, pi)       3: dy = 0, dx < 0,  angle pi
\* and, inside an open half plane, by the sign of the cross product.
ClaseAngulo(dx, dy) ==
    IF dy < 0 THEN 0
    ELSE IF dy > 0 THEN 2
    ELSE IF dx >= 0 THEN 1 ELSE 3

AnguloMenor(ax, ay, bx, by) ==
    \/ ClaseAngulo(ax, ay) < ClaseAngulo(bx, by)
    \/ /\ ClaseAngulo(ax, ay) = ClaseAngulo(bx, by)
       /\ ClaseAngulo(ax, ay) \in {0, 2}
       /\ ax * by - ay * bx > 0

\* an element (punto, angulo, distancia) of puntos_con_angulo; the angle is
\* kept as the vector <<dx, dy>> it is the atan2 of
ConAngulo(p, punto_inicio) ==
    LET dx == p.longitud - punto_inicio.longitud
        dy == p.latitud - punto_inicio.latitud
    IN  [punto |-> p, dx |-> dx, dy |-> dy, distancia |-> Sqrt(dx * dx + dy * dy)]

\* key(a) < key(b) for key = (angulo, distancia)
ClaveMenor(a, b) ==
    \/ AnguloMenor(a.dx, a.dy, b.dx, b.dy)
    \/ /\ ~AnguloMenor(b.dx, b.dy, a.dx, a.dy)
       /\ a.distancia < b.distancia

\* list.sort(key=...) is stable: x goes after every element whose key is not
\* greater than its own
InsertarOrdenado(s, x) ==
    LET pos == Cardinality({k \in 1..Len(s) : ~ClaveMenor(x, s[k])})
    IN  SubSeq(s, 1, pos) \o <<x>> \o SubSeq(s, pos + 1, Len(s))

RECURSIVE OrdenarPorClave(_)
OrdenarPorClave(s) ==
    Valor({ IF v = <<>> THEN <<>>
            ELSE Valor({ InsertarOrdenado(antes, v[Len(v)]) :
                            antes \in {OrdenarPorClave(SubSeq(v, 1, Len(v) - 1))} }) :
            v \in {s} })

\* debe_cerrar for the next point, lines 286-297.  capacidad_objetivo * 0.85
\* is demanda_total / num_vehiculos * 0.85: the comparison is cross-multiplied.
DebeCerrar(cap, nv, demanda_total, n_rutas, carga_actual, demanda) ==
    \/ carga_actual + demanda > cap
    \/ /\ nv - n_rutas > 1
       /\ carga_actual * nv * 100 >= demanda_total * 85

\* PasoBarrido with a slip: the point that closes a route is not put on the
\* route that opens
PasoBarridoPierdePunto(pts, m, cap, nv, dep, demanda_total, st, p) ==
    LET vehiculos_restantes == nv - Len(st.rutas)
        debe_cerrar == DebeCerrar(cap, nv, demanda_total, Len(st.rutas),
                                  st.carga_actual, p.demanda)
    IN  IF debe_cerrar /\ Len(st.ruta_actual) > 1 /\ vehiculos_restantes > 1
        THEN [rutas        |-> Append(st.rutas,
                                      crear_ruta(pts, m, Append(st.ruta_actual, dep))),
              lanza        |-> st.lanza
                               \/ crear_ruta_lanza(m, Append(st.ruta_actual, dep)),
              ruta_actual  |-> <<dep>>,
              carga_actual |-> 0]
        ELSE [rutas        |-> st.rutas,
              lanza        |-> st.lanza,
              ruta_actual  |-> Append(st.ruta_actual, p.id),
              carga_actual |-> st.carga_actual + p.demanda]

\* PasoBarrido with a slip: a route is closed whenever debe_cerrar says so,
\* also when no vehicle is left for the route that opens
PasoBarridoSinTope(pts, m, cap, nv, dep, demanda_total, st, p) ==
    LET debe_cerrar == DebeCerrar(cap, nv, demanda_total, Len(st.rutas),
                                  st.carga_actual, p.demanda)
    IN  IF debe_cerrar /\ Len(st.ruta_actual) > 1
        THEN [rutas        |-> Append(st.rutas,
                                      crear_ruta(pts, m, Append(st.ruta_actual, dep))),
              lanza        |-> st.lanza
                               \/ crear_ruta_lanza(m, Append(st.ruta_actual, dep)),
              ruta_actual  |-> <<dep, p.id>>,
              carga_actual |-> p.demanda]
        ELSE [rutas        |-> st.rutas,
              lanza        |-> st.lanza,
              ruta_actual  |-> Append(st.ruta_actual, p.id),
              carga_actual |-> st.carga_actual + p.demanda]

\* one pass of the loop of lines 282-317 on the point p
PasoBarrido(pts, m, cap, nv, dep, demanda_total, st, p) ==
    LET vehiculos_restantes == nv - Len(st.rutas)
        debe_cerrar == DebeCerrar(cap, nv, demanda_total, Len(st.rutas),
                                  st.carga_actual, p.demanda)
    IN  IF debe_cerrar /\ Len(st.ruta_actual) > 1 /\ vehiculos_restantes > 1
        THEN [rutas        |-> Append(st.rutas,
                                      crear_ruta(pts, m, Append(st.ruta_actual, dep))),
              lanza        |-> st.lanza
                               \/ crear_ruta_lanza(m, Append(st.ruta_actual, dep)),
              ruta_actual  |-> <<dep, p.id>>,
              carga_actual |-> p.demanda]
        ELSE [rutas        |-> st.rutas,
              lanza        |-> st.lanza,
              ruta_actual  |-> Append(st.ruta_actual, p.id),
              carga_actual |-> st.carga_actual + p.demanda]

RECURSIVE Barrido(_, _, _, _, _, _, _, _)
Barrido(pts, m, cap, nv, dep, demanda_total, ordenados, k) ==
    IF k = 0
    THEN [rutas |-> <<>>, lanza |-> FALSE, ruta_actual |-> <<dep>>, carga_actual |-> 0]
    ELSE Valor({ PasoBarrido(pts, m, cap, nv, dep, demanda_total, st,
                             ordenados[k].punto) :
                    st \in {Barrido(pts, m, cap, nv, dep, demanda_total,
                                    ordenados, k - 1)} })

\* PuntosConAngulo with a slip: the list is not sorted
PuntosSinOrdenar(pts, dep) ==
    LET puntos_visitar == SelectSeq(pts, LAMBDA p : p.id # dep)
        punto_inicio == PuntoDeId(pts, dep)
    IN  [k \in 1..Len(puntos_visitar) |-> ConAngulo(puntos_visitar[k], punto_inicio)]

\* lines 266-270: the points to visit, sorted by (angulo, distancia)
PuntosConAngulo(pts, dep) ==
    LET puntos_visitar == SelectSeq(pts, LAMBDA p : p.id # dep)
        punto_inicio == PuntoDeId(pts, dep)
    IN  OrdenarPorClave([k \in 1..Len(puntos_visitar) |->
                            ConAngulo(puntos_visitar[k], punto_inicio)])

\* lines 273-274
DemandaTotal(puntos_con_angulo) ==
    SumSeq([k \in 1..Len(puntos_con_angulo) |-> puntos_con_angulo[k].punto.demanda])

\* lines 320-322: the route left open when the loop ends
CerrarUltima(pts, m, dep, st) ==
    LET ultima == Append(st.ruta_actual, dep)
    IN  IF Len(st.ruta_actual) > 1
        THEN [lanza |-> st.lanza \/ crear_ruta_lanza(m, ultima),
              rutas |-> Append(st.rutas, crear_ruta(pts, m, ultima))]
        ELSE [lanza |-> st.lanza, rutas |-> st.rutas]

\* The value of generar_solucion_inicial: [lanza, rutas].  lanza: a call of
\* _crear_ruta raised IndexError and no list is returned.
generar_solucion_inicial(pts, m, cap, nv, dep) ==
    Valor({ CerrarUltima(pts, m, dep, st) :
               st \in { Barrido(pts, m, cap, nv, dep, DemandaTotal(puntos_con_angulo),
                                puntos_con_angulo, Len(puntos_con_angulo)) :
                           puntos_con_angulo \in {PuntosConAngulo(pts, dep)} } })
(***************************************************************************)
(* generar_vecino.  A position in a route's puntos and a route's index in  *)
(* the solution are the program's 0-based values; seq[k + 1] reads them.   *)
(* The random draws of one call are the record                             *)
(*   [operador, r1, r2, i, j, pos]                                         *)
(* (a draw the call does not make is 0); Sorteos is the set of draws       *)
(* random.choice and random.randint can return on a solution.              *)
(***************************************************************************)
Sorteo(operador, r1, r2, i, j, pos) ==
    [operador |-> operador, r1 |-> r1, r2 |-> r2, i |-> i, j |-> j, pos |-> pos]

\* floor(log2(n)) of n >= 1
RECURSIVE PisoLog2(_)
PisoLog2(n) == IF n < 2 THEN 0 ELSE 1 + PisoLog2(n \div 2)

\* len(nueva_solucion) > self.num_vehiculos * 0.7 (line 446), as binary64
\* computes it for a route count n and an integer fleet nv.  The double 0.7
\* is 0.7 - 0.4 * 2^-53, so the exact product is 0.4 * nv * 2^-53 below
\* 7 nv / 10.  Where 7 nv / 10 is not an integer the rounding changes no
\* comparison with an integer; where it is the integer n (never a power of
\* two), the product rounds to n unless it is more than half the spacing
\* 2^(floor(log2 n) - 52) of the doubles below n away from it, and then it
\* rounds to a double below n and n > product holds.
SuperaSetentaPorCiento(n, nv) ==
    \/ 10 * n > 7 * nv
    \/ /\ n >= 1
       /\ 10 * n = 7 * nv
       /\ 2 * nv > 5 * 2^PisoLog2(n)

\* lines 442-447: consolidate is offered when len(rutas) > num_vehiculos * 0.7
Operadores(nv, rutas) ==
    {"intra_swap", "inter_swap", "two_opt", "relocate"}
        \cup (IF SuperaSetentaPorCiento(Len(rutas), nv) THEN {"consolidate"} ELSE {})

LargoRuta(rutas, r) == Len(rutas[r + 1].puntos)

Demanda(pts, pid) == PuntoDeId(pts, pid).demanda

Intercambiar(ids, i, j) ==
    [ids EXCEPT ![i + 1] = ids[j + 1], ![j + 1] = ids[i + 1]]

\* ruta.puntos[i:j+1] = reversed(ruta.puntos[i:j+1])
InvertirTramo(ids, i, j) ==
    [k \in 1..Len(ids) |->
        IF i + 1 <= k /\ k <= j + 1 THEN ids[(i + 1) + (j + 1) - k] ELSE ids[k]]

\* list.pop(i)
Quitar(ids, i) == SubSeq(ids, 1, i) \o SubSeq(ids, i + 2, Len(ids))

\* list.insert(pos, x)
Insertar(ids, pos, x) == SubSeq(ids, 1, pos) \o <<x>> \o SubSeq(ids, pos + 1, Len(ids))

\* ---- intra_swap, lines 452-472
SorteosIntraSwap(rutas) ==
    IF Len(rutas) > 0
    THEN UNION { IF LargoRuta(rutas, r) > 3
                 THEN { Sorteo("intra_swap", r, 0, i, j, 0) :
                            i \in 1..(LargoRuta(rutas, r) - 3),
                            j \in 1..(LargoRuta(rutas, r) - 3) }
                 ELSE { Sorteo("intra_swap", r, 0, 0, 0, 0) } :
                 r \in 0..(Len(rutas) - 1) }
    ELSE { Sorteo("intra_swap", 0, 0, 0, 0, 0) }

intra_swap(pts, m, rutas, s) ==
    IF Len(rutas) > 0 /\ LargoRuta(rutas, s.r1) > 3
    THEN [rutas EXCEPT ![s.r1 + 1] =
             crear_ruta(pts, m, Intercambiar(rutas[s.r1 + 1].puntos, s.i, s.j))]
    ELSE rutas

\* ---- inter_swap, lines 474-510
SorteosInterSwap(rutas) ==
    IF Len(rutas) >= 2
    THEN UNION { IF r1 # r2 /\ LargoRuta(rutas, r1) > 2 /\ LargoRuta(rutas, r2) > 2
                 THEN { Sorteo("inter_swap", r1, r2, i, j, 0) :
                            i \in 1..(LargoRuta(rutas, r1) - 2),
                            j \in 1..(LargoRuta(rutas, r2) - 2) }
                 ELSE { Sorteo("inter_swap", r1, r2, 0, 0, 0) } :
                 r1 \in 0..(Len(rutas) - 1), r2 \in 0..(Len(rutas) - 1) }
    ELSE { Sorteo("inter_swap", 0, 0, 0, 0, 0) }

\* InterSwapCabe with a slip: only the load of the first route is tested
InterSwapCabeSoloPrimera(pts, cap, ra, rb, i, j) ==
    LET di == Demanda(pts, ra.puntos[i + 1])
        dj == Demanda(pts, rb.puntos[j + 1])
    IN  ra.carga - di + dj <= cap

\* the capacity test of lines 499-505, on the stored loads of the two routes
InterSwapCabe(pts, cap, ra, rb, i, j) ==
    LET di == Demanda(pts, ra.puntos[i + 1])
        dj == Demanda(pts, rb.puntos[j + 1])
    IN  /\ ra.carga - di + dj <= cap
        /\ rb.carga - dj + di <= cap

inter_swap(pts, m, cap, rutas, s) ==
    IF /\ Len(rutas) >= 2
       /\ s.r1 # s.r2
       /\ LargoRuta(rutas, s.r1) > 2
       /\ LargoRuta(rutas, s.r2) > 2
       /\ InterSwapCabe(pts, cap, rutas[s.r1 + 1], rutas[s.r2 + 1], s.i, s.j)
    THEN LET ra == rutas[s.r1 + 1]
             rb == rutas[s.r2 + 1]
         IN  [rutas EXCEPT
                 ![s.r1 + 1] = crear_ruta(pts, m,
                                  [ra.puntos EXCEPT ![s.i + 1] = rb.puntos[s.j + 1]]),
                 ![s.r2 + 1] = crear_ruta(pts, m,
                                  [rb.puntos EXCEPT ![s.j + 1] = ra.puntos[s.i + 1]])]
    ELSE rutas

\* ---- two_opt, lines 512-532
SorteosTwoOpt(rutas) ==
    IF Len(rutas) > 0
    THEN UNION { IF LargoRuta(rutas, r) > 4
                 THEN UNION { { Sorteo("two_opt", r, 0, i, j, 0) :
                                    j \in (i + 1)..(LargoRuta(rutas, r) - 2) } :
                              i \in 1..(LargoRuta(rutas, r) - 3) }
                 ELSE { Sorteo("two_opt", r, 0, 0, 0, 0) } :
                 r \in 0..(Len(rutas) - 1) }
    ELSE { Sorteo("two_opt", 0, 0, 0, 0, 0) }

\* two_opt with a slip: the segment is reversed in the route and the route's
\* stored distance, load and time are left as they were
two_opt_sin_recalcular(pts, m, rutas, s) ==
    IF Len(rutas) > 0 /\ LargoRuta(rutas, s.r1) > 4
    THEN [rutas EXCEPT ![s.r1 + 1].puntos =
             InvertirTramo(rutas[s.r1 + 1].puntos, s.i, s.j)]
    ELSE rutas

two_opt(pts, m, rutas, s) ==
    IF Len(rutas) > 0 /\ LargoRuta(rutas, s.r1) > 4
    THEN [rutas EXCEPT ![s.r1 + 1] =
             crear_ruta(pts, m, InvertirTramo(rutas[s.r1 + 1].puntos, s.i, s.j))]
    ELSE rutas

\* ---- relocate, lines 534-567
\* the capacity test of line 557, on the stored load of the destination
\* RelocateCabe with a slip: the destination's load is tested without the
\* demand of the point it is to receive
RelocateCabeSinDemanda(pts, cap, ra, rb, i) ==
    rb.carga <= cap

RelocateCabe(pts, cap, ra, rb, i) ==
    rb.carga + Demanda(pts, ra.puntos[i + 1]) <= cap

\* SorteosRelocate with a slip: the insertion position is drawn from the
\* whole destination, before its first depot and after its last included
SorteosRelocateSinExtremos(pts, cap, rutas) ==
    IF Len(rutas) >= 2
    THEN UNION { IF r1 # r2 /\ LargoRuta(rutas, r1) > 3
                 THEN UNION { IF RelocateCabe(pts, cap, rutas[r1 + 1], rutas[r2 + 1], i)
                              THEN { Sorteo("relocate", r1, r2, i, 0, pos) :
                                         pos \in 0..LargoRuta(rutas, r2) }
                              ELSE { Sorteo("relocate", r1, r2, i, 0, 0) } :
                              i \in 1..(LargoRuta(rutas, r1) - 2) }
                 ELSE { Sorteo("relocate", r1, r2, 0, 0, 0) } :
                 r1 \in 0..(Len(rutas) - 1), r2 \in 0..(Len(rutas) - 1) }
    ELSE { Sorteo("relocate", 0, 0, 0, 0, 0) }

SorteosRelocate(pts, cap, rutas) ==
    IF Len(rutas) >= 2
    THEN UNION { IF r1 # r2 /\ LargoRuta(rutas, r1) > 3
                 THEN UNION { IF RelocateCabe(pts, cap, rutas[r1 + 1], rutas[r2 + 1], i)
                              THEN { Sorteo("relocate", r1, r2, i, 0, pos) :
                                         pos \in 1..(LargoRuta(rutas, r2) - 1) }
                              ELSE { Sorteo("relocate", r1, r2, i, 0, 0) } :
                              i \in 1..(LargoRuta(rutas, r1) - 2) }
                 ELSE { Sorteo("relocate", r1, r2, 0, 0, 0) } :
                 r1 \in 0..(Len(rutas) - 1), r2 \in 0..(Len(rutas) - 1) }
    ELSE { Sorteo("relocate", 0, 0, 0, 0, 0) }

\* relocate with a slip: the point is inserted in the destination and left in
\* the source
relocate_sin_quitar(pts, m, cap, rutas, s) ==
    IF /\ Len(rutas) >= 2
       /\ s.r1 # s.r2
       /\ LargoRuta(rutas, s.r1) > 3
       /\ RelocateCabe(pts, cap, rutas[s.r1 + 1], rutas[s.r2 + 1], s.i)
    THEN LET ra == rutas[s.r1 + 1]
             rb == rutas[s.r2 + 1]
         IN  [rutas EXCEPT
                 ![s.r2 + 1] = crear_ruta(pts, m,
                                  Insertar(rb.puntos, s.pos, ra.puntos[s.i + 1]))]
    ELSE rutas

relocate(pts, m, cap, rutas, s) ==
    IF /\ Len(rutas) >= 2
       /\ s.r1 # s.r2
       /\ LargoRuta(rutas, s.r1) > 3
       /\ RelocateCabe(pts, cap, rutas[s.r1 + 1], rutas[s.r2 + 1], s.i)
    THEN LET ra == rutas[s.r1 + 1]
             rb == rutas[s.r2 + 1]
         IN  [rutas EXCEPT
                 ![s.r1 + 1] = crear_ruta(pts, m, Quitar(ra.puntos, s.i)),
                 ![s.r2 + 1] = crear_ruta(pts, m,
                                  Insertar(rb.puntos, s.pos, ra.puntos[s.i + 1]))]
    ELSE rutas

\* ---- consolidate, lines 569-597
\* sorted(enumerate(nueva_solucion), key=carga): the 0-based route indices by
\* ascending stored load, equal loads in list order (sorted is stable)
OrdenPorCarga(rutas) ==
    LET antes(a, b) == \/ rutas[a + 1].carga < rutas[b + 1].carga
                       \/ /\ rutas[a + 1].carga = rutas[b + 1].carga
                          /\ a < b
        lugar(a) == 1 + Cardinality({b \in 0..(Len(rutas) - 1) : antes(b, a)})
    IN  [k \in 1..Len(rutas) |->
            CHOOSE a \in 0..(Len(rutas) - 1) : lugar(a) = k]

\* the positions i of the ranking whose pair (i, i + 1) fits in one vehicle
ParesQueCaben(cap, rutas) ==
    LET orden == OrdenPorCarga(rutas)
    IN  { i \in 1..(Len(rutas) - 1) :
            rutas[orden[i] + 1].carga + rutas[orden[i + 1] + 1].carga <= cap }

Minimo(S) == CHOOSE x \in S : \A y \in S : x <= y

\* consolidate with a slip: the merged route is added and the two routes it
\* merges are kept
consolidate_sin_quitar(pts, m, cap, rutas) ==
    IF Len(rutas) >= 2 /\ ParesQueCaben(cap, rutas) # {}
    THEN LET orden == OrdenPorCarga(rutas)
             i     == Minimo(ParesQueCaben(cap, rutas))
             ra    == rutas[orden[i] + 1]
             rb    == rutas[orden[i + 1] + 1]
         IN  Append(rutas,
                    crear_ruta(pts, m,
                        SubSeq(ra.puntos, 1, Len(ra.puntos) - 1) \o Tail(rb.puntos)))
    ELSE rutas

\* consolidate with a slip: the heavier route of the pair comes first in the
\* merged route
consolidate_invertido(pts, m, cap, rutas) ==
    IF Len(rutas) >= 2 /\ ParesQueCaben(cap, rutas) # {}
    THEN LET orden == OrdenPorCarga(rutas)
             i     == Minimo(ParesQueCaben(cap, rutas))
             idx1  == orden[i]
             idx2  == orden[i + 1]
             ra    == rutas[idx1 + 1]
             rb    == rutas[idx2 + 1]
             puntos_combinados ==
                 SubSeq(rb.puntos, 1, Len(rb.puntos) - 1) \o Tail(ra.puntos)
             quedan == SelectSeq([k \in 1..Len(rutas) |-> k - 1],
                                 LAMBDA x : x # idx1 /\ x # idx2)
         IN  Append([k \in 1..Len(quedan) |-> rutas[quedan[k] + 1]],
                    crear_ruta(pts, m, puntos_combinados))
    ELSE rutas

consolidate(pts, m, cap, rutas) ==
    IF Len(rutas) >= 2 /\ ParesQueCaben(cap, rutas) # {}
    THEN LET orden == OrdenPorCarga(rutas)
             i     == Minimo(ParesQueCaben(cap, rutas))
             idx1  == orden[i]
             idx2  == orden[i + 1]
             ra    == rutas[idx1 + 1]
             rb    == rutas[idx2 + 1]
             puntos_combinados ==
                 SubSeq(ra.puntos, 1, Len(ra.puntos) - 1) \o Tail(rb.puntos)
             quedan == SelectSeq([k \in 1..Len(rutas) |-> k - 1],
                                 LAMBDA x : x # idx1 /\ x # idx2)
         IN  Append([k \in 1..Len(quedan) |-> rutas[quedan[k] + 1]],
                    crear_ruta(pts, m, puntos_combinados))
    ELSE rutas

\* ---- what can make a call of generar_vecino raise
\* Every <<a, b>> that random.randint is called with, over all the draws one
\* call can make on rutas (lines 457, 465-466, 478-479, 490-491, 516,
\* 524-525, 538-539, 550, 562); randint(a, b) raises ValueError when a > b.
RangosDeSorteo(pts, cap, nv, rutas) ==
    LET n == Len(rutas)
        L(r) == LargoRuta(rutas, r)
        indices == 0..(n - 1)
    IN  (IF n > 0 THEN { <<0, n - 1>> } ELSE {})
        \cup { <<1, L(r) - 3>> : r \in { x \in indices : L(x) > 3 } }
        \cup (IF n >= 2
              THEN UNION { IF r1 # r2 /\ L(r1) > 2 /\ L(r2) > 2
                           THEN { <<1, L(r1) - 2>>, <<1, L(r2) - 2>> }
                           ELSE {} :
                           r1 \in indices, r2 \in indices }
              ELSE {})
        \cup UNION { { <<i + 1, L(r) - 2>> : i \in 1..(L(r) - 3) } :
                     r \in { x \in indices : L(x) > 4 } }
        \cup (IF n >= 2
              THEN UNION { IF r1 # r2 /\ L(r1) > 3
                           THEN { <<1, L(r1) - 2>> }
                                   \cup { <<1, L(r2) - 1>> :
                                            i \in { x \in 1..(L(r1) - 2) :
                                                      RelocateCabe(pts, cap, rutas[r1 + 1],
                                                                   rutas[r2 + 1], x) } }
                           ELSE {} :
                           r1 \in indices, r2 \in indices }
              ELSE {})

\* _crear_ruta raises on an id sequence: IndexError from the table read, or
\* StopIteration from next(...) when no point carries an interior id
ReconstruccionLanza(pts, m, ids) ==
    \/ crear_ruta_lanza(m, ids)
    \/ \E q \in 2..(Len(ids) - 1) : \A k \in 1..Len(pts) : pts[k].id # ids[q]

\* every draw one call of generar_vecino can make on rutas
Sorteos(pts, cap, nv, rutas) ==
    UNION { CASE op = "intra_swap"  -> SorteosIntraSwap(rutas)
              [] op = "inter_swap"  -> SorteosInterSwap(rutas)
              [] op = "two_opt"     -> SorteosTwoOpt(rutas)
              [] op = "relocate"    -> SorteosRelocate(pts, cap, rutas)
              [] op = "consolidate" -> { Sorteo("consolidate", 0, 0, 0, 0, 0) } :
            op \in Operadores(nv, rutas) }

\* the candidate generar_vecino returns on rutas when its draws are s
generar_vecino(pts, m, cap, rutas, s) ==
    CASE s.operador = "intra_swap"  -> intra_swap(pts, m, rutas, s)
      [] s.operador = "inter_swap"  -> inter_swap(pts, m, cap, rutas, s)
      [] s.operador = "two_opt"     -> two_opt(pts, m, rutas, s)
      [] s.operador = "relocate"    -> relocate(pts, m, cap, rutas, s)
      [] s.operador = "consolidate" -> consolidate(pts, m, cap, rutas)

(***************************************************************************)
(* Point lists.  The depot is the first point of the list (as in           *)
(* datos_dosquebradas.py); the ids follow one of three schemes:            *)
(*   "posicion"  id = list position (the data shipped with the program)    *)
(*   "inverso"   the same ids in the opposite order                        *)
(*   "desde_uno" ids 1..n, so that the last id is no index of the table    *)
(***************************************************************************)
Esquemas == {"posicion", "inverso", "desde_uno"}

IdDe(esquema, n, k) ==
    CASE esquema = "posicion"  -> k - 1
      [] esquema = "inverso"   -> n - k
      [] esquema = "desde_uno" -> k

\* the lists of 1 + n points: a depot of demand 0, then n points to visit
ListasDePuntos(esquema, n, lugares_deposito, lugares, demandas) ==
    { [k \in 1..(n + 1) |->
          [id       |-> IdDe(esquema, n + 1, k),
           latitud  |-> IF k = 1 THEN ld[1] ELSE l[k][1],
           longitud |-> IF k = 1 THEN ld[2] ELSE l[k][2],
           demanda  |-> IF k = 1 THEN 0 ELSE d[k]]] :
        ld \in lugares_deposito,
        l \in [2..(n + 1) -> lugares],
        d \in [2..(n + 1) -> demandas] }

(***************************************************************************)
(* Specification SpecBarrido: generar_solucion_inicial called on an engine *)
(* built from any point list, capacity > 0 and fleet size >= 1.            *)
(***************************************************************************)
\* the state of an engine after __init__ (lines 120-138)
Construido(pts, cap, nv, dep) ==
    /\ puntos = pts
    /\ capacidad_vehiculo = cap
    /\ num_vehiculos = nv
    /\ punto_inicio_id = dep
    /\ matriz_distancias = calcular_matriz_distancias(pts)
    /\ historial_costos = <<>>
    /\ historial_temperaturas = <<>>
    /\ mejor_solucion = "None"
    /\ mejor_costo = "inf"

\* no run of ejecutar has started
SinCorrida ==
    /\ callback_progreso = FALSE
    /\ solucion_actual = <<>>
    /\ costo_actual = 0
    /\ temperatura = <<0, 1>>
    /\ iteracion = 0
    /\ total_iteraciones = 0
    /\ paso = 0
    /\ llamadas = <<>>
    /\ costo_minimo_visto = 0
    /\ entrada = <<>>
    /\ salida = <<>>

\* the SA parameters __init__ sets (lines 129-132); 0.01 = 1/100, 0.985 = 197/200
ParametrosPorDefecto ==
    /\ temperatura_inicial = <<15000, 1>>
    /\ temperatura_minima = <<1, 100>>
    /\ factor_enfriamiento = <<197, 200>>
    /\ iteraciones_por_temperatura = 150

InitBarrido ==
    /\ pc = "listo"
    /\ \E esquema \in Esquemas, n \in 0..MaxPuntosSweep,
          cap \in Capacidades, nv \in 1..MaxVehiculos :
          \E pts \in ListasDePuntos(esquema, n, LugaresDeposito, Lugares, Demandas) :
              Construido(pts, cap, nv, pts[1].id)
    /\ ParametrosPorDefecto
    /\ SinCorrida

LlamarBarrido ==
    /\ pc = "listo"
    /\ LET r == generar_solucion_inicial(puntos, matriz_distancias,
                                         capacidad_vehiculo, num_vehiculos,
                                         punto_inicio_id)
       IN  /\ pc' = IF r.lanza THEN "IndexError" ELSE "barrido"
           /\ salida' = IF r.lanza THEN <<>> ELSE r.rutas
    /\ UNCHANGED <<config, campos, locales, entrada>>

NextBarrido == LlamarBarrido

SpecBarrido == InitBarrido /\ [][NextBarrido]_vars
(***************************************************************************)
(* criterio_aceptacion and the cooling schedule                            *)
(***************************************************************************)
\* fractions <<num, den>> with den > 0
FracMayor(a, b) == a[1] * b[2] > b[1] * a[2]
FracPor(a, b) == <<a[1] * b[1], a[2] * b[2]>>
FracIgual(a, b) == a[1] * b[2] = b[1] * a[2]

\* math.exp(-delta / temperatura) > 0.  In double precision exp(-x) is
\* positive for x <= 745.13 and 0.0 from 745.14 on; the costs of the model
\* are multiples of 111 and its temperatures are 1, 2 and 4, so that no
\* delta / temperatura lies between 745 and 746.
ProbabilidadPositiva(delta, temp) == delta * temp[2] <= 745 * temp[1]

\* criterio_aceptacion with a slip: a candidate of equal cost is accepted
\* only when the draw is below the probability, taken as below 1
criterio_aceptacion_sin_empate(c_actual, c_vecino, temp, azar) ==
    IF c_vecino < c_actual
    THEN TRUE
    ELSE azar = "bajo" /\ c_vecino # c_actual
            /\ ProbabilidadPositiva(c_vecino - c_actual, temp)

\* Lines 633-650 at a temperature > 0.  azar stands for the draw of
\* random.random() against probabilidad = exp(-delta / temperatura):
\* "bajo" when the draw is below it.  exp(-0.0) is 1.0, above every draw of
\* [0, 1); for delta > 0 the probability is below 1, so that the draw can be
\* "alto", and no draw is below a probability of 0.0.
criterio_aceptacion(c_actual, c_vecino, temp, azar) ==
    IF c_vecino < c_actual
    THEN TRUE
    ELSE LET delta == c_vecino - c_actual
         IN  IF delta = 0 THEN TRUE
             ELSE azar = "bajo" /\ ProbabilidadPositiva(delta, temp)

\* SigueEnfriando with a slip: >= for >
SigueEnfriandoInclusive(temp, t_min) == ~FracMayor(t_min, temp)

\* the condition of the two while loops (lines 713 and 729)
SigueEnfriando(temp, t_min) == FracMayor(temp, t_min)

\* SimularEnfriamiento with a slip: the simulated loop goes on while the
\* temperature is not below the minimum, the real one while it is above
RECURSIVE SimularEnfriamientoInclusive(_, _, _, _)
SimularEnfriamientoInclusive(temp, t_min, alfa, ipt) ==
    IF SigueEnfriandoInclusive(temp, t_min)
    THEN ipt + SimularEnfriamientoInclusive(FracPor(temp, alfa), t_min, alfa, ipt)
    ELSE 0

\* lines 711-715: total_iteraciones, by running the schedule in advance
RECURSIVE SimularEnfriamiento(_, _, _, _)
SimularEnfriamiento(temp, t_min, alfa, ipt) ==
    IF SigueEnfriando(temp, t_min)
    THEN ipt + SimularEnfriamiento(FracPor(temp, alfa), t_min, alfa, ipt)
    ELSE 0

\* lines 724-725; x // y is the floor division of non-negative integers
Max2(a, b) == IF a >= b THEN a ELSE b
callback_frecuencia(ipt) == Max2(1, ipt \div 15)
stats_frecuencia(ipt) == Max2(1, ipt \div 30)

\* Progreso with a slip: the share of the current stage's trials that are
\* done, instead of the share of the run's
ProgresoDeEtapa(it, total) ==
    <<(((it - 1) % iteraciones_por_temperatura) + 1) * 100, iteraciones_por_temperatura>>

\* line 766: min(100.0, iteracion / total_iteraciones * 100), as a fraction
Progreso(it, total) == IF it >= total THEN <<100, 1>> ELSE <<it * 100, total>>

\* the copy of lines 698-702 and 748-752: new Ruta objects, copied id lists
CopiarSolucion(rutas) ==
    [k \in 1..Len(rutas) |->
        [puntos    |-> rutas[k].puntos,
         distancia |-> rutas[k].distancia,
         carga     |-> rutas[k].carga,
         tiempo    |-> rutas[k].tiempo]]

(***************************************************************************)
(* Specification Spec: one run of ejecutar on a constructed engine.        *)
(* The point list is a depot at the origin and four points to visit, one   *)
(* on each half axis, with ids equal to list positions; the sweep visits   *)
(* them in the order 4, 1, 2, 3.                                           *)
(***************************************************************************)
PuntosEnCruz(d) ==
    << [id |-> 0, latitud |-> 0,   longitud |-> 0,  demanda |-> 0],
       [id |-> 1, latitud |-> 0,   longitud |-> 5,  demanda |-> d[1]],
       [id |-> 2, latitud |-> 12,  longitud |-> 0,  demanda |-> d[2]],
       [id |-> 3, latitud |-> 0,   longitud |-> -5, demanda |-> d[3]],
       [id |-> 4, latitud |-> -12, longitud |-> 0,  demanda |-> d[4]] >>

DemandasEnCruz == { <<1, 1, 1, 1>>, <<2, 1, 1, 2>>, <<1, 2, 1, 1>> }
CapacidadesEnCruz == {2, 3, 4}

\* <<temperatura_inicial, factor_enfriamiento>>; temperatura_minima is 1
Enfriamientos ==
    { << <<1, 1>>, <<1, 2>> >>,     \* no stage
      << <<2, 1>>, <<1, 2>> >>,     \* one stage: 2
      << <<4, 1>>, <<1, 4>> >>,     \* one stage: 4
      << <<4, 1>>, <<1, 2>> >> }    \* two stages: 4, 2

Init ==
    /\ pc = "listo"
    /\ \E d \in DemandasEnCruz, cap \in CapacidadesEnCruz, nv \in 1..MaxVehiculos :
          Construido(PuntosEnCruz(d), cap, nv, 0)
    /\ \E e \in Enfriamientos :
          /\ temperatura_inicial = e[1]
          /\ factor_enfriamiento = e[2]
    /\ temperatura_minima = <<1, 1>>
    /\ iteraciones_por_temperatura \in 1..MaxIteraciones
    /\ SinCorrida

\* ejecutar, lines 693-725: phase 1
EjecutarInicio ==
    /\ pc = "listo"
    /\ \E inicial \in {generar_solucion_inicial(puntos, matriz_distancias,
                             capacidad_vehiculo, num_vehiculos, punto_inicio_id).rutas} :
          \E costo_inicial \in {calcular_costo_total(inicial)} :
              /\ solucion_actual' = inicial
              /\ costo_actual' = costo_inicial
              /\ mejor_solucion' = CopiarSolucion(inicial)
              /\ mejor_costo' = costo_inicial
              /\ costo_minimo_visto' = costo_inicial
    /\ callback_progreso' \in BOOLEAN
    /\ temperatura' = temperatura_inicial
    /\ iteracion' = 0
    /\ total_iteraciones' = SimularEnfriamiento(temperatura_inicial, temperatura_minima,
                                factor_enfriamiento, iteraciones_por_temperatura)
    /\ historial_costos' = <<>>
    /\ historial_temperaturas' = <<>>
    /\ paso' = 0
    /\ llamadas' = <<>>
    /\ pc' = "bucle"
    /\ UNCHANGED <<config, entrada, salida>>

\* the candidates generar_vecino can return on rutas, over all its draws
Vecinos(pts, m, cap, nv, rutas) ==
    { generar_vecino(pts, m, cap, rutas, s) : s \in Sorteos(pts, cap, nv, rutas) }

\* the answers criterio_aceptacion can give, over the draw of random.random()
Aceptaciones(c_actual, c_vecino, temp) ==
    { criterio_aceptacion(c_actual, c_vecino, temp, azar) : azar \in {"bajo", "alto"} }

\* EsMejora with a slip: the candidate is compared with the solution it
\* replaces, not with the best one
EsMejoraSobreActual(acepta, c_vecino, c_actual, c_mejor) ==
    acepta /\ c_vecino < c_actual

\* lines 740 and 746: the accepted candidate becomes the best solution
EsMejora(acepta, c_vecino, c_actual, c_mejor) ==
    acepta /\ c_vecino < c_mejor

\* EfectoPrueba with a slip: the candidate is built in place on the current
\* solution, so a rejected trial leaves the candidate there too
EfectoPruebaEnElLugar(solucion_vecina, costo_vecino, acepta) ==
    LET mejora == EsMejora(acepta, costo_vecino, costo_actual, mejor_costo)
        mejor_costo_nuevo == IF mejora THEN costo_vecino ELSE mejor_costo
        it == iteracion + 1
    IN  /\ solucion_actual' = solucion_vecina
        /\ costo_actual' = IF acepta THEN costo_vecino ELSE costo_actual
        /\ mejor_solucion' = IF mejora THEN CopiarSolucion(solucion_vecina)
                                       ELSE mejor_solucion
        /\ mejor_costo' = mejor_costo_nuevo
        /\ costo_minimo_visto' =
              IF acepta /\ costo_vecino < costo_minimo_visto
              THEN costo_vecino ELSE costo_minimo_visto
        /\ iteracion' = it
        /\ IF it % stats_frecuencia(iteraciones_por_temperatura) = 0
           THEN /\ historial_costos' = Append(historial_costos, mejor_costo_nuevo)
                /\ historial_temperaturas' = Append(historial_temperaturas, temperatura)
           ELSE UNCHANGED <<historial_costos, historial_temperaturas>>
        /\ llamadas' =
              IF callback_progreso
                 /\ it % callback_frecuencia(iteraciones_por_temperatura) = 0
              THEN Append(llamadas,
                          [progreso          |-> Progreso(it, total_iteraciones),
                           mejor_costo       |-> mejor_costo_nuevo,
                           temperatura       |-> temperatura,
                           iteracion         |-> it,
                           total_iteraciones |-> total_iteraciones])
              ELSE llamadas

\* what a trial leaves in the fields and locals, lines 740-769
EfectoPrueba(solucion_vecina, costo_vecino, acepta) ==
    LET mejora == EsMejora(acepta, costo_vecino, costo_actual, mejor_costo)
        mejor_costo_nuevo == IF mejora THEN costo_vecino ELSE mejor_costo
        it == iteracion + 1
    IN  /\ solucion_actual' = IF acepta THEN solucion_vecina ELSE solucion_actual
        /\ costo_actual' = IF acepta THEN costo_vecino ELSE costo_actual
        /\ mejor_solucion' = IF mejora THEN CopiarSolucion(solucion_vecina)
                                       ELSE mejor_solucion
        /\ mejor_costo' = mejor_costo_nuevo
        /\ costo_minimo_visto' =
              IF acepta /\ costo_vecino < costo_minimo_visto
              THEN costo_vecino ELSE costo_minimo_visto
        /\ iteracion' = it
        /\ IF it % stats_frecuencia(iteraciones_por_temperatura) = 0
           THEN /\ historial_costos' = Append(historial_costos, mejor_costo_nuevo)
                /\ historial_temperaturas' = Append(historial_temperaturas, temperatura)
           ELSE UNCHANGED <<historial_costos, historial_temperaturas>>
        /\ llamadas' =
              IF callback_progreso
                 /\ it % callback_frecuencia(iteraciones_por_temperatura) = 0
              THEN Append(llamadas,
                          [progreso          |-> Progreso(it, total_iteraciones),
                           mejor_costo       |-> mejor_costo_nuevo,
                           temperatura       |-> temperatura,
                           iteracion         |-> it,
                           total_iteraciones |-> total_iteraciones])
              ELSE llamadas

\* one trial: the body of the inner for, lines 736-769
Prueba ==
    /\ pc = "bucle"
    /\ SigueEnfriando(temperatura, temperatura_minima)
    /\ paso < iteraciones_por_temperatura
    /\ \E s \in Sorteos(puntos, capacidad_vehiculo, num_vehiculos, solucion_actual) :
          \E solucion_vecina \in {generar_vecino(puntos, matriz_distancias,
                                       capacidad_vehiculo, solucion_actual, s)} :
              \E costo_vecino \in {calcular_costo_total(solucion_vecina)} :
                  \E acepta \in Aceptaciones(costo_actual, costo_vecino, temperatura) :
                      EfectoPrueba(solucion_vecina, costo_vecino, acepta)
    /\ paso' = paso + 1
    /\ UNCHANGED <<pc, config, callback_progreso, temperatura, total_iteraciones,
                   entrada, salida>>

\* the end of a stage, line 773
Enfriar ==
    /\ pc = "bucle"
    /\ SigueEnfriando(temperatura, temperatura_minima)
    /\ paso = iteraciones_por_temperatura
    /\ temperatura' = FracPor(temperatura, factor_enfriamiento)
    /\ paso' = 0
    /\ UNCHANGED <<pc, config, campos, callback_progreso, solucion_actual,
                   costo_actual, iteracion, total_iteraciones, llamadas,
                   costo_minimo_visto, entrada, salida>>

\* Finalizar with a slip: costo_inicial is taken from the solution the run
\* ends on, not from a second sweep
FinalizarConCostoActual ==
    /\ pc = "bucle"
    /\ paso = 0
    /\ ~SigueEnfriando(temperatura, temperatura_minima)
    /\ llamadas' =
          IF callback_progreso
          THEN Append(llamadas,
                      [progreso          |-> <<100, 1>>,
                       mejor_costo       |-> mejor_costo,
                       temperatura       |-> temperatura,
                       iteracion         |-> iteracion,
                       total_iteraciones |-> total_iteraciones])
          ELSE llamadas
    /\ salida' =
          [mejor_solucion |-> mejor_solucion,
           mejor_costo    |-> mejor_costo,
           estadisticas   |->
              [iteraciones_totales    |-> iteracion,
               costo_inicial          |-> costo_actual,
               costo_final            |-> mejor_costo,
               numero_rutas           |-> Len(mejor_solucion),
               historial_costos       |-> historial_costos,
               historial_temperaturas |-> historial_temperaturas]]
    /\ pc' = "hecho"
    /\ UNCHANGED <<config, campos, callback_progreso, solucion_actual,
                   costo_actual, temperatura, iteracion, total_iteraciones,
                   paso, costo_minimo_visto, entrada>>

\* phase 3, lines 777-793: the last callback, the statistics, the return
Finalizar ==
    /\ pc = "bucle"
    /\ paso = 0
    /\ ~SigueEnfriando(temperatura, temperatura_minima)
    /\ llamadas' =
          IF callback_progreso
          THEN Append(llamadas,
                      [progreso          |-> <<100, 1>>,
                       mejor_costo       |-> mejor_costo,
                       temperatura       |-> temperatura,
                       iteracion         |-> iteracion,
                       total_iteraciones |-> total_iteraciones])
          ELSE llamadas
    /\ \E inicial \in {generar_solucion_inicial(puntos, matriz_distancias,
                             capacidad_vehiculo, num_vehiculos, punto_inicio_id).rutas} :
          salida' =
             [mejor_solucion |-> mejor_solucion,
              mejor_costo    |-> mejor_costo,
              estadisticas   |->
                 [iteraciones_totales    |-> iteracion,
                  costo_inicial          |-> calcular_costo_total(inicial),
                  costo_final            |-> mejor_costo,
                  numero_rutas           |-> Len(mejor_solucion),
                  historial_costos       |-> historial_costos,
                  historial_temperaturas |-> historial_temperaturas]]
    /\ pc' = "hecho"
    /\ UNCHANGED <<config, campos, callback_progreso, solucion_actual, costo_actual,
                   temperatura, iteracion, total_iteraciones, paso,
                   costo_minimo_visto, entrada>>

Next == EjecutarInicio \/ Prueba \/ Enfriar \/ Finalizar

Spec == Init /\ [][Next]_vars
\* the run under the scheduling of a sequential program: a step that can be
\* taken is taken
SpecJusto == Spec /\ WF_vars(Next)

(***************************************************************************)
(* Specification SpecConstruir: __init__ called with any arguments.        *)
(***************************************************************************)
ArgumentosInit ==
    [puntos             : {<<>>} \cup UNION { ListasDePuntos("posicion", n,
                                                 LugaresDeposito, Lugares, Demandas) :
                                              n \in 0..1 },
     capacidad_vehiculo : {-1, 0, 1, 2},
     num_vehiculos      : {-1, 0, 1, 2},
     punto_inicio_id    : {0, 7}]

InitConstruir ==
    /\ pc = "nuevo"
    /\ entrada \in ArgumentosInit
    /\ puntos = "None"
    /\ capacidad_vehiculo = "None"
    /\ num_vehiculos = "None"
    /\ punto_inicio_id = "None"
    /\ matriz_distancias = "None"
    /\ historial_costos = "None"
    /\ historial_temperaturas = "None"
    /\ mejor_solucion = "None"
    /\ mejor_costo = "None"
    /\ temperatura_inicial = "None"
    /\ temperatura_minima = "None"
    /\ factor_enfriamiento = "None"
    /\ iteraciones_por_temperatura = "None"
    /\ callback_progreso = FALSE
    /\ solucion_actual = <<>>
    /\ costo_actual = 0
    /\ temperatura = <<0, 1>>
    /\ iteracion = 0
    /\ total_iteraciones = 0
    /\ paso = 0
    /\ llamadas = <<>>
    /\ costo_minimo_visto = 0
    /\ salida = <<>>

\* __init__, lines 120-138: the arguments are stored and the table computed;
\* no statement of it tests an argument or raises
Construir ==
    /\ pc = "nuevo"
    /\ puntos' = entrada.puntos
    /\ capacidad_vehiculo' = entrada.capacidad_vehiculo
    /\ num_vehiculos' = entrada.num_vehiculos
    /\ punto_inicio_id' = entrada.punto_inicio_id
    /\ matriz_distancias' = calcular_matriz_distancias(entrada.puntos)
    /\ temperatura_inicial' = <<15000, 1>>
    /\ temperatura_minima' = <<1, 100>>
    /\ factor_enfriamiento' = <<197, 200>>
    /\ iteraciones_por_temperatura' = 150
    /\ historial_costos' = <<>>
    /\ historial_temperaturas' = <<>>
    /\ mejor_solucion' = "None"
    /\ mejor_costo' = "inf"
    /\ pc' = "listo"
    /\ UNCHANGED <<locales, entrada, salida>>

NextConstruir == Construir

SpecConstruir == InitConstruir /\ [][NextConstruir]_vars

(***************************************************************************)
(* Specification SpecRuta: _crear_ruta called on an id sequence bracketed  *)
(* by the depot, on engines whose point ids follow each of the schemes.    *)
(***************************************************************************)
\* the id sequences depot, up to two ids of points to visit, depot
SecuenciasDeIds(pts, dep) ==
    LET ids == { pts[k].id : k \in 1..Len(pts) } \ {dep}
    IN  { <<dep, dep>> }
            \cup { <<dep, a, dep>> : a \in ids }
            \cup { <<dep, a, b, dep>> : a \in ids, b \in ids }

InitRuta ==
    /\ pc = "listo"
    /\ \E esquema \in Esquemas, n \in 1..2 :
          \E pts \in ListasDePuntos(esquema, n, LugaresDeposito, Lugares, {1}) :
              /\ Construido(pts, 3, 2, pts[1].id)
              /\ callback_progreso = FALSE
              /\ solucion_actual = <<>>
              /\ costo_actual = 0
              /\ temperatura = <<0, 1>>
              /\ iteracion = 0
              /\ total_iteraciones = 0
              /\ paso = 0
              /\ llamadas = <<>>
              /\ costo_minimo_visto = 0
              /\ salida = <<>>
              /\ entrada \in SecuenciasDeIds(pts, pts[1].id)
    /\ ParametrosPorDefecto

LlamarCrearRuta ==
    /\ pc = "listo"
    /\ IF crear_ruta_lanza(matriz_distancias, entrada)
       THEN /\ pc' = "IndexError"
            /\ salida' = <<>>
       ELSE /\ pc' = "ruta"
            /\ salida' = crear_ruta(puntos, matriz_distancias, entrada)
    /\ UNCHANGED <<config, campos, locales, entrada>>

NextRuta == LlamarCrearRuta

SpecRuta == InitRuta /\ [][NextRuta]_vars
(***************************************************************************)
(* Specification SpecCriterio: criterio_aceptacion called with any two     *)
(* costs, a temperature > 0 and either outcome of the draw.                *)
(***************************************************************************)
\* route costs: sums of table entries, multiples of 111
CostosCriterio == { 111 * k : k \in 0..5 }
\* temperatures > 0, from temperatura_minima to temperatura_inicial
TemperaturasCriterio == { <<1, 100>>, <<1, 1>>, <<4, 1>>, <<15000, 1>> }

InitCriterio ==
    /\ pc = "listo"
    /\ Construido(PuntosEnCruz(<<1, 1, 1, 1>>), 2, 2, 0)
    /\ ParametrosPorDefecto
    /\ callback_progreso = FALSE
    /\ solucion_actual = <<>>
    /\ costo_actual = 0
    /\ temperatura = <<0, 1>>
    /\ iteracion = 0
    /\ total_iteraciones = 0
    /\ paso = 0
    /\ llamadas = <<>>
    /\ costo_minimo_visto = 0
    /\ salida = <<>>
    /\ entrada \in [costo_actual : CostosCriterio,
                    costo_vecino : CostosCriterio,
                    temperatura  : TemperaturasCriterio,
                    azar         : {"bajo", "alto"}]

LlamarCriterio ==
    /\ pc = "listo"
    /\ salida' = criterio_aceptacion(entrada.costo_actual, entrada.costo_vecino,
                                     entrada.temperatura, entrada.azar)
    /\ pc' = "criterio"
    /\ UNCHANGED <<config, campos, locales, entrada>>

NextCriterio == LlamarCriterio

SpecCriterio == InitCriterio /\ [][NextCriterio]_vars
(***************************************************************************)
(* validar_solucion.  An error message is modelled by what it is made      *)
(* from: its kind and the values formatted into it.                        *)
(***************************************************************************)
\* the ids the double loop of lines 835-836 goes through, in order
RECURSIVE IdsRecorridos(_, _)
IdsRecorridos(rutas, k) ==
    IF k = 0 THEN <<>>
    ELSE IdsRecorridos(rutas, k - 1) \o Interior(rutas[k].puntos)

\* lines 837-839 over the first k ids: one message per id seen before
RECURSIVE ErroresDuplicados(_, _)
ErroresDuplicados(recorridos, k) ==
    IF k = 0 THEN <<>>
    ELSE IF \E j \in 1..(k - 1) : recorridos[j] = recorridos[k]
         THEN Append(ErroresDuplicados(recorridos, k - 1), <<"duplicado", recorridos[k]>>)
         ELSE ErroresDuplicados(recorridos, k - 1)

\* ErroresFaltantes with a slip: the omissions are looked for only when no
\* duplicate was reported
ErroresFaltantesTrasCorte(pts, dep, recorridos) ==
    LET puntos_visitados == { recorridos[k] : k \in 1..Len(recorridos) }
        puntos_esperados == { pts[k].id : k \in 1..Len(pts) } \ {dep}
        puntos_faltantes == puntos_esperados \ puntos_visitados
    IN  IF puntos_faltantes # {}
           /\ ErroresDuplicados(recorridos, Len(recorridos)) = <<>>
        THEN << <<"faltantes", puntos_faltantes>> >>
        ELSE <<>>

\* lines 842-845
ErroresFaltantes(pts, dep, recorridos) ==
    LET puntos_visitados == { recorridos[k] : k \in 1..Len(recorridos) }
        puntos_esperados == { pts[k].id : k \in 1..Len(pts) } \ {dep}
        puntos_faltantes == puntos_esperados \ puntos_visitados
    IN  IF puntos_faltantes # {}
        THEN << <<"faltantes", puntos_faltantes>> >>
        ELSE <<>>

\* lines 848-851 over the first k routes; the message carries i + 1
RECURSIVE ErroresCapacidad(_, _, _)
ErroresCapacidad(cap, rutas, k) ==
    IF k = 0 THEN <<>>
    ELSE IF rutas[k].carga > cap
         THEN Append(ErroresCapacidad(cap, rutas, k - 1),
                     <<"capacidad", k, rutas[k].carga, cap>>)
         ELSE ErroresCapacidad(cap, rutas, k - 1)

\* lines 854-856
ErroresVehiculos(nv, rutas) ==
    IF Len(rutas) > nv THEN << <<"vehiculos", Len(rutas), nv>> >> ELSE <<>>

\* validar_solucion with a slip: ids are counted as visited only when a
\* point to visit carries them, so that a depot id or a foreign id seen
\* twice is not reported
validar_solucion_solo_esperados(pts, dep, cap, nv, rutas) ==
    LET todos == IdsRecorridos(rutas, Len(rutas))
        esperados == { pts[k].id : k \in 1..Len(pts) } \ {dep}
        recorridos == SelectSeq(todos, LAMBDA x : x \in esperados)
        errores == ErroresDuplicados(recorridos, Len(recorridos))
                      \o ErroresFaltantes(pts, dep, recorridos)
                      \o ErroresCapacidad(cap, rutas, Len(rutas))
                      \o ErroresVehiculos(nv, rutas)
    IN  [es_valida |-> Len(errores) = 0, errores |-> errores]

\* lines 831-859
validar_solucion(pts, dep, cap, nv, rutas) ==
    LET recorridos == IdsRecorridos(rutas, Len(rutas))
        errores == ErroresDuplicados(recorridos, Len(recorridos))
                      \o ErroresFaltantes(pts, dep, recorridos)
                      \o ErroresCapacidad(cap, rutas, Len(rutas))
                      \o ErroresVehiculos(nv, rutas)
    IN  [es_valida |-> Len(errores) = 0, errores |-> errores]

(***************************************************************************)
(* Specification SpecValidar: validar_solucion called, up to twice in a    *)
(* row, on any list of Ruta objects: interiors may hold a point id, the    *)
(* depot id or an id no point carries, any number of times, and carga is   *)
(* whatever the Ruta object says.                                          *)
(***************************************************************************)
\* most routes of a list passed to validar_solucion
MaxRutasValidar == 2

\* depot 0 and the points 1 and 2
PuntosValidar ==
    << [id |-> 0, latitud |-> 0, longitud |-> 0,  demanda |-> 0],
       [id |-> 1, latitud |-> 0, longitud |-> 5,  demanda |-> 1],
       [id |-> 2, latitud |-> 0, longitud |-> -5, demanda |-> 1] >>

\* ids found in route interiors: the points', the depot's, and a foreign one
IdsValidar == {0, 1, 2, 7}

InterioresValidar ==
    { <<>> } \cup { <<a>> : a \in IdsValidar } \cup { <<a, b>> : a \in IdsValidar, b \in IdsValidar }

\* Ruta objects around the depot 0; validar_solucion reads puntos and carga
RutasValidar ==
    { [puntos    |-> <<0>> \o interior \o <<0>>,
       distancia |-> 0,
       carga     |-> carga,
       tiempo    |-> <<0, 264>>] :
        interior \in InterioresValidar, carga \in {2, 3} }

InitValidar ==
    /\ pc = "listo"
    /\ \E nv \in 1..2 : Construido(PuntosValidar, 2, nv, 0)
    /\ ParametrosPorDefecto
    /\ callback_progreso = FALSE
    /\ solucion_actual = <<>>
    /\ costo_actual = 0
    /\ temperatura = <<0, 1>>
    /\ iteracion = 0
    /\ total_iteraciones = 0
    /\ paso = 0
    /\ llamadas = <<>>
    /\ costo_minimo_visto = 0
    /\ salida = <<>>
    /\ entrada \in UNION { [1..n -> RutasValidar] : n \in 0..MaxRutasValidar }

\* LlamarValidar with a slip: the call strips the depot off both ends of
\* each route in place instead of slicing a copy
LlamarValidarRecortando ==
    /\ pc \in {"listo", "validado"}
    /\ salida' = Append(salida, validar_solucion(puntos, punto_inicio_id,
                                    capacidad_vehiculo, num_vehiculos, entrada))
    /\ entrada' = [k \in 1..Len(entrada) |->
                      [entrada[k] EXCEPT !.puntos = Interior(entrada[k].puntos)]]
    /\ pc' = IF pc = "listo" THEN "validado" ELSE "revalidado"
    /\ UNCHANGED <<config, campos, locales>>

\* one call of validar_solucion on the list entrada; salida collects the
\* values returned, in call order.  No statement of lines 831-859 assigns to
\* a field of the engine or to a route.
LlamarValidar ==
    /\ pc \in {"listo", "validado"}
    /\ salida' = Append(salida, validar_solucion(puntos, punto_inicio_id,
                                    capacidad_vehiculo, num_vehiculos, entrada))
    /\ pc' = IF pc = "listo" THEN "validado" ELSE "revalidado"
    /\ UNCHANGED <<config, campos, locales, entrada>>

NextValidar == LlamarValidar

SpecValidar == InitValidar /\ [][NextValidar]_vars
(***************************************************************************)
(* Specification SpecTemperaturas: runs of ejecutar on an engine whose     *)
(* temperatures were set to any values before the run, positive or not.    *)
(* Of the settings with a temperature <= 0 it has those with               *)
(* temperatura_inicial <= temperatura_minima, where both while loops end   *)
(* at their first test.                                                    *)
(***************************************************************************)
\* <<temperatura_inicial, temperatura_minima, factor_enfriamiento>>
ConfiguracionesTemperatura ==
    { << <<2, 1>>,  <<1, 1>>,  <<1, 2>> >>,     \* one stage
      << <<4, 1>>,  <<1, 1>>,  <<1, 2>> >>,     \* two stages
      << <<0, 1>>,  <<1, 1>>,  <<1, 2>> >>,
      << <<-1, 1>>, <<1, 1>>,  <<1, 2>> >>,
      << <<0, 1>>,  <<0, 1>>,  <<1, 2>> >>,
      << <<-1, 1>>, <<0, 1>>,  <<1, 2>> >>,
      << <<-1, 1>>, <<-1, 1>>, <<1, 2>> >> }

InitTemperaturas ==
    /\ pc = "listo"
    /\ \E nv \in 1..2 : Construido(PuntosEnCruz(<<1, 1, 1, 1>>), 2, nv, 0)
    /\ \E c \in ConfiguracionesTemperatura :
          /\ temperatura_inicial = c[1]
          /\ temperatura_minima = c[2]
          /\ factor_enfriamiento = c[3]
    /\ iteraciones_por_temperatura \in 1..MaxIteraciones
    /\ SinCorrida

SpecTemperaturas == InitTemperaturas /\ [][Next]_vars
(***************************************************************************)
(* One call of generar_vecino on a large fleet.  The customers have demand *)
(* 1 and lie on the two sides of the depot; the solution passed is one     *)
(* route per customer, which is what the sweep returns on these points     *)
(* when the capacity is 2 and the fleet is larger than the customers.      *)
(***************************************************************************)
PuntosEnFila(K) ==
    [k \in 1..(K + 1) |->
        IF k = 1
        THEN [id |-> 0, latitud |-> 0, longitud |-> 0, demanda |-> 0]
        ELSE [id |-> k - 1, latitud |-> 0,
              longitud |-> IF k % 2 = 0 THEN 5 ELSE -5, demanda |-> 1]]

\* one route per customer, in list order
RutasDeUno(pts, m) ==
    [k \in 1..(Len(pts) - 1) |-> crear_ruta(pts, m, <<pts[1].id, pts[k + 1].id, pts[1].id>>)]

\* <<customers, fleet size>>
FlotasGrandes == { <<3, 3>>, <<7, 10>>, <<63, 90>>, <<63, 91>> }

InitFlota ==
    /\ pc = "listo"
    /\ \E f \in FlotasGrandes : Construido(PuntosEnFila(f[1]), 2, f[2], 0)
    /\ ParametrosPorDefecto
    /\ callback_progreso = FALSE
    /\ solucion_actual = <<>>
    /\ costo_actual = 0
    /\ temperatura = <<0, 1>>
    /\ iteracion = 0
    /\ total_iteraciones = 0
    /\ paso = 0
    /\ llamadas = <<>>
    /\ costo_minimo_visto = 0
    /\ salida = <<>>
    /\ entrada = RutasDeUno(puntos, matriz_distancias)

\* generar_vecino(entrada), lines 395-599
LlamarGenerarVecino ==
    /\ pc = "listo"
    /\ \E s \in Sorteos(puntos, capacidad_vehiculo, num_vehiculos, entrada) :
          salida' = generar_vecino(puntos, matriz_distancias, capacidad_vehiculo,
                                   entrada, s)
    /\ pc' = "vecino"
    /\ UNCHANGED <<config, campos, locales, entrada>>

NextFlota == LlamarGenerarVecino

SpecFlota == InitFlota /\ [][NextFlota]_vars
(***************************************************************************)
(* Repeated runs on one engine.  In this specification entrada is the      *)
(* sequence of the values the earlier calls of ejecutar returned, as the   *)
(* caller holds them, and salida the value of the last call.               *)
(***************************************************************************)
InitCorridas ==
    /\ pc = "listo"
    /\ \E cap \in {2, 4} : Construido(PuntosEnCruz(<<1, 1, 1, 1>>), cap, 2, 0)
    /\ \E e \in Enfriamientos :
          /\ temperatura_inicial = e[1]
          /\ factor_enfriamiento = e[2]
    /\ temperatura_minima = <<1, 1>>
    /\ iteraciones_por_temperatura \in 1..MaxIteraciones
    /\ SinCorrida

\* EjecutarDeNuevo with a slip: the two histories are not emptied
EjecutarDeNuevoSinReinicio ==
    /\ pc = "hecho"
    /\ Len(entrada) + 1 < MaxCorridas
    /\ \E inicial \in {generar_solucion_inicial(puntos, matriz_distancias,
                             capacidad_vehiculo, num_vehiculos, punto_inicio_id).rutas} :
          \E costo_inicial \in {calcular_costo_total(inicial)} :
              /\ solucion_actual' = inicial
              /\ costo_actual' = costo_inicial
              /\ mejor_solucion' = CopiarSolucion(inicial)
              /\ mejor_costo' = costo_inicial
              /\ costo_minimo_visto' = costo_inicial
    /\ callback_progreso' \in BOOLEAN
    /\ temperatura' = temperatura_inicial
    /\ iteracion' = 0
    /\ total_iteraciones' = SimularEnfriamiento(temperatura_inicial, temperatura_minima,
                                factor_enfriamiento, iteraciones_por_temperatura)
    /\ UNCHANGED <<historial_costos, historial_temperaturas>>
    /\ paso' = 0
    /\ llamadas' = <<>>
    /\ pc' = "bucle"
    /\ entrada' = Append(entrada, salida)
    /\ UNCHANGED <<config, salida>>

\* a further call of ejecutar on the same engine, lines 693-725; the caller
\* keeps the value the call before returned
EjecutarDeNuevo ==
    /\ pc = "hecho"
    /\ Len(entrada) + 1 < MaxCorridas
    /\ \E inicial \in {generar_solucion_inicial(puntos, matriz_distancias,
                             capacidad_vehiculo, num_vehiculos, punto_inicio_id).rutas} :
          \E costo_inicial \in {calcular_costo_total(inicial)} :
              /\ solucion_actual' = inicial
              /\ costo_actual' = costo_inicial
              /\ mejor_solucion' = CopiarSolucion(inicial)
              /\ mejor_costo' = costo_inicial
              /\ costo_minimo_visto' = costo_inicial
    /\ callback_progreso' \in BOOLEAN
    /\ temperatura' = temperatura_inicial
    /\ iteracion' = 0
    /\ total_iteraciones' = SimularEnfriamiento(temperatura_inicial, temperatura_minima,
                                factor_enfriamiento, iteraciones_por_temperatura)
    /\ historial_costos' = <<>>
    /\ historial_temperaturas' = <<>>
    /\ paso' = 0
    /\ llamadas' = <<>>
    /\ pc' = "bucle"
    /\ entrada' = Append(entrada, salida)
    /\ UNCHANGED <<config, salida>>

NextCorridas == Next \/ EjecutarDeNuevo

SpecCorridas == InitCorridas /\ [][NextCorridas]_vars
(***************************************************************************)
(* Properties                                                              *)
(***************************************************************************)
IdsAVisitar(pts, dep) == { pts[k].id : k \in 1..Len(pts) } \ {dep}

\* how often pid occurs in the interiors of the routes
Visitas(rutas, pid) ==
    SumSeq([k \in 1..Len(rutas) |->
               Cardinality({ q \in 2..(Len(rutas[k].puntos) - 1) :
                               rutas[k].puntos[q] = pid })])

CoberturaExacta(pts, dep, rutas) ==
    \A pid \in IdsAVisitar(pts, dep) : Visitas(rutas, pid) = 1

CargasDentro(cap, rutas) == \A k \in 1..Len(rutas) : rutas[k].carga <= cap

Factible(pts, dep, cap, nv, rutas) ==
    /\ CargasDentro(cap, rutas)
    /\ Len(rutas) <= nv
    /\ CoberturaExacta(pts, dep, rutas)

SolucionInicial ==
    generar_solucion_inicial(puntos, matriz_distancias, capacidad_vehiculo,
                             num_vehiculos, punto_inicio_id).rutas

EnCorrida == pc \in {"bucle", "hecho"}

\* C1: the route list generar_solucion_inicial returns holds every non-depot
\* point id exactly once over the route interiors.
C1_BarridoCubre ==
    pc = "barrido" => CoberturaExacta(puntos, punto_inicio_id, salida)

\* three points to visit, returned in two routes or more
C1_Testigo ==
    /\ pc = "barrido"
    /\ Len(puntos) >= 4
    /\ Len(salida) >= 2

\* C2 as stated: the best solution ejecutar returns is feasible (loads within
\* capacity, route count within the fleet, every point visited once).
C2_MejorFactible ==
    pc = "hecho" =>
        Factible(puntos, punto_inicio_id, capacidad_vehiculo, num_vehiculos,
                 salida.mejor_solucion)

\* C3: in a run the current and the best solution hold every non-depot point
\* exactly once, and so does every candidate generar_vecino can return on the
\* current solution, whichever operator and indices are drawn.
C3_CoberturaEnCorrida ==
    EnCorrida =>
        /\ CoberturaExacta(puntos, punto_inicio_id, solucion_actual)
        /\ CoberturaExacta(puntos, punto_inicio_id, mejor_solucion)
        /\ \A v \in Vecinos(puntos, matriz_distancias, capacidad_vehiculo,
                            num_vehiculos, solucion_actual) :
               CoberturaExacta(puntos, punto_inicio_id, v)

\* after two trials, a current solution that is no longer the sweep's and has
\* a route of three points next to another route
C3_Testigo ==
    /\ pc = "bucle"
    /\ iteracion >= 2
    /\ Len(solucion_actual) >= 2
    /\ \E k \in 1..Len(solucion_actual) : Len(solucion_actual[k].puntos) = 5
    /\ solucion_actual # SolucionInicial

\* C4: generar_solucion_inicial returns at most num_vehiculos routes.
C4_BarridoRespetaFlota ==
    pc = "barrido" => Len(salida) <= num_vehiculos

\* the fleet is used up and the last route is above capacity
C4_Testigo ==
    /\ pc = "barrido"
    /\ Len(salida) = num_vehiculos
    /\ num_vehiculos >= 2
    /\ salida[Len(salida)].carga > capacidad_vehiculo

\* C5: no candidate of generar_vecino has more routes than its input; the
\* route count of the current solution never grows over a trial and stays
\* within the fleet size.
C5_RutasNoAumentan ==
    /\ [](EnCorrida =>
            /\ Len(solucion_actual) <= num_vehiculos
            /\ \A v \in Vecinos(puntos, matriz_distancias, capacidad_vehiculo,
                                num_vehiculos, solucion_actual) :
                   Len(v) <= Len(solucion_actual))
    /\ [][pc = "bucle" /\ pc' = "bucle"
            => Len(solucion_actual') <= Len(solucion_actual)]_vars

\* the current solution has fewer routes than the sweep's
C5_Testigo ==
    /\ pc = "bucle"
    /\ Len(solucion_actual) < Len(SolucionInicial)

\* C6 as stated: in the sweep's output every route other than the last has
\* load <= capacity, also for points whose own demand is above capacity.
C6_SoloUltimaExcede ==
    pc = "barrido" =>
        \A k \in 1..(Len(salida) - 1) : salida[k].carga <= capacidad_vehiculo

\* C7 as stated: an engine is produced only from a non-empty point list, a
\* capacity > 0, a fleet size > 0 and a depot id that a point carries.
ArgumentosValidos(a) ==
    /\ a.puntos # <<>>
    /\ a.capacidad_vehiculo > 0
    /\ a.num_vehiculos > 0
    /\ \E k \in 1..Len(a.puntos) : a.puntos[k].id = a.punto_inicio_id

C7_ConstruccionValida ==
    pc = "listo" => ArgumentosValidos(entrada)

\* C8 as stated: _crear_ruta returns, and its distance is the sum over the
\* consecutive ids (a, b) of the table entry at the list positions of the
\* points whose ids are a and b.
PosicionDeId(pts, pid) ==
    (CHOOSE k \in 1..Len(pts) : pts[k].id = pid) - 1

DistanciaPorPosicion(pts, m, ids) ==
    SumSeq([k \in 1..(Len(ids) - 1) |->
               m[PosicionDeId(pts, ids[k])][PosicionDeId(pts, ids[k + 1])]])

C8_DistanciaPorPosicion ==
    pc # "listo" =>
        /\ pc = "ruta"
        /\ salida.distancia = DistanciaPorPosicion(puntos, matriz_distancias, entrada)

\* C9: after every trial mejor_costo is the least cost among the initial
\* solution and the solutions that have been the current one; it never
\* increases and never exceeds the cost of the sweep's solution.
C9_MejorCostoEsMinimo ==
    /\ [](EnCorrida =>
            /\ mejor_costo = costo_minimo_visto
            /\ mejor_costo <= calcular_costo_total(SolucionInicial)
            /\ mejor_costo <= costo_actual)
    /\ [][pc = "bucle" => mejor_costo' <= mejor_costo]_vars

\* the best cost went below the sweep's and the current solution is worse
\* than the best again
C9_Testigo ==
    /\ pc = "bucle"
    /\ mejor_costo < calcular_costo_total(SolucionInicial)
    /\ costo_actual > mejor_costo

\* C10: with 0 < factor_enfriamiento < 1 and temperatura_minima > 0 ejecutar
\* terminates, having run the trials of exactly the stages whose temperature
\* T0 * alpha^k is above temperatura_minima, iteraciones_por_temperatura
\* trials each: trial t ran at the temperature of stage (t - 1) \div ipt,
\* whatever the best cost did.
RECURSIVE Potencia(_, _)
Potencia(b, e) == IF e = 0 THEN 1 ELSE b * Potencia(b, e - 1)

TemperaturaDeEtapa(k) ==
    <<temperatura_inicial[1] * Potencia(factor_enfriamiento[1], k),
      temperatura_inicial[2] * Potencia(factor_enfriamiento[2], k)>>

PruebasPorEtapas ==
    /\ iteracion % iteraciones_por_temperatura = 0
    /\ Len(historial_temperaturas) = iteracion
    /\ \A t \in 1..iteracion :
          /\ FracIgual(historial_temperaturas[t],
                       TemperaturaDeEtapa((t - 1) \div iteraciones_por_temperatura))
          /\ FracMayor(historial_temperaturas[t], temperatura_minima)
    /\ ~FracMayor(TemperaturaDeEtapa(iteracion \div iteraciones_por_temperatura),
                  temperatura_minima)

C10_TerminaPorTemperatura ==
    /\ <>(pc = "hecho")
    /\ [](pc = "hecho" => PruebasPorEtapas)

\* a finished run of two stages in which the best cost improved
C10_Testigo ==
    /\ pc = "hecho"
    /\ iteracion = 2 * iteraciones_por_temperatura
    /\ mejor_costo < calcular_costo_total(SolucionInicial)

\* C11: with a callback supplied, the last callback call of a finished run
\* reports 100, also when no stage ran; the percentages reported over the run
\* never decrease and are never above 100.
C11_ProgresoHastaCien ==
    /\ \A k \in 1..Len(llamadas) : ~FracMayor(llamadas[k].progreso, <<100, 1>>)
    /\ \A k \in 1..(Len(llamadas) - 1) :
          ~FracMayor(llamadas[k].progreso, llamadas[k + 1].progreso)
    /\ (pc = "hecho" /\ callback_progreso) =>
          /\ llamadas # <<>>
          /\ FracIgual(llamadas[Len(llamadas)].progreso, <<100, 1>>)

\* a finished run of two stages whose callback saw a percentage below 100,
\* then 100 from the loop, then the closing 100
C11_Testigo ==
    /\ pc = "hecho"
    /\ callback_progreso
    /\ Len(llamadas) >= 3
    /\ FracMayor(<<100, 1>>, llamadas[1].progreso)
    /\ FracIgual(llamadas[Len(llamadas) - 1].progreso, <<100, 1>>)
    /\ llamadas[Len(llamadas) - 1].iteracion = llamadas[Len(llamadas)].iteracion

\* C12: criterio_aceptacion returns True for every candidate whose cost is
\* <= the current cost, at every temperature > 0 and whatever the draw; a
\* candidate of equal cost is always accepted.
C12_NoPeorSeAcepta ==
    (pc = "criterio" /\ entrada.costo_vecino <= entrada.costo_actual) => salida = TRUE

\* a candidate of equal cost, a draw that is not below a probability < 1, at
\* the lowest temperature
C12_Testigo ==
    /\ pc = "criterio"
    /\ entrada.costo_vecino = entrada.costo_actual
    /\ entrada.azar = "alto"
    /\ entrada.temperatura = <<1, 100>>
    /\ salida = TRUE

\* the ids found in the route interiors
IdsEnInteriores(rutas) ==
    UNION { { rutas[k].puntos[q] : q \in 2..(Len(rutas[k].puntos) - 1) } :
            k \in 1..Len(rutas) }

Mensajes(errores, tipo) ==
    Cardinality({ k \in 1..Len(errores) : errores[k][1] = tipo })

\* occurrences of an id in the interiors beyond its first one
VisitasRepetidas(rutas) ==
    SumSeq([k \in 1..Len(rutas) |-> Len(Interior(rutas[k].puntos))])
        - Cardinality(IdsEnInteriores(rutas))

\* C14: validar_solucion evaluates every check on every call: the list it
\* returns holds one message per repeated occurrence of an id, one message
\* when points are omitted, one per route above capacity and one when the
\* routes outnumber the fleet, whichever of the other violations are present
\* as well; and the call returns (it never raises).
C14_TodasLasComprobaciones ==
    pc = "validado" =>
        LET errores == salida[1].errores
        IN  /\ Mensajes(errores, "duplicado") = VisitasRepetidas(entrada)
            /\ Mensajes(errores, "faltantes") =
                  IF \E pid \in IdsAVisitar(puntos, punto_inicio_id) :
                        Visitas(entrada, pid) = 0
                  THEN 1 ELSE 0
            /\ Mensajes(errores, "capacidad") =
                  Cardinality({ k \in 1..Len(entrada) :
                                  entrada[k].carga > capacidad_vehiculo })
            /\ Mensajes(errores, "vehiculos") =
                  IF Len(entrada) > num_vehiculos THEN 1 ELSE 0

\* a list with a point visited twice, a point left out, a route above
\* capacity and more routes than vehicles: four messages, one of each kind
C14_Testigo ==
    /\ pc = "validado"
    /\ Visitas(entrada, 1) = 2
    /\ Visitas(entrada, 2) = 0
    /\ Len(entrada) > num_vehiculos
    /\ \E k \in 1..Len(entrada) : entrada[k].carga > capacidad_vehiculo
    /\ Len(salida[1].errores) = 4
    /\ \A tipo \in {"duplicado", "faltantes", "capacidad", "vehiculos"} :
          Mensajes(salida[1].errores, tipo) = 1

ClaveDeId(pid) ==
    ConAngulo(PuntoDeId(puntos, pid), PuntoDeId(puntos, punto_inicio_id))

\* the ids of the points to visit, in the order of the point list
IdsEnOrdenDeLista ==
    LET puntos_visitar == SelectSeq(puntos, LAMBDA p : p.id # punto_inicio_id)
    IN  [k \in 1..Len(puntos_visitar) |-> puntos_visitar[k].id]

\* C16: the route interiors of generar_solucion_inicial's output, put one
\* after the other in route order, are the non-depot points in ascending
\* order of polar angle around the depot and, at equal angles, of distance
\* from it; every route is thus a block of consecutive points of that order.
C16_BarridoEnOrdenAngular ==
    pc = "barrido" =>
        LET orden == IdsRecorridos(salida, Len(salida))
        IN  /\ Len(orden) = Len(puntos) - 1
            /\ { orden[k] : k \in 1..Len(orden) } = IdsAVisitar(puntos, punto_inicio_id)
            /\ \A k \in 1..(Len(orden) - 1) :
                  ~ClaveMenor(ClaveDeId(orden[k + 1]), ClaveDeId(orden[k]))

\* three points in two routes or more, visited in another order than the
\* list's, two of them at the same angle and told apart by their distance
C16_Testigo ==
    /\ pc = "barrido"
    /\ Len(puntos) = 4
    /\ Len(salida) >= 2
    /\ IdsRecorridos(salida, Len(salida)) # IdsEnOrdenDeLista
    /\ \E k \in 1..2 :
          LET a == ClaveDeId(IdsRecorridos(salida, Len(salida))[k])
              b == ClaveDeId(IdsRecorridos(salida, Len(salida))[k + 1])
          IN  /\ ~AnguloMenor(a.dx, a.dy, b.dx, b.dy)
              /\ ~AnguloMenor(b.dx, b.dy, a.dx, a.dy)
              /\ a.distancia < b.distancia

\* the whole of a point list in one route
UnaRutaConTodos(rutas) ==
    /\ Len(rutas) = 1
    /\ CoberturaExacta(puntos, punto_inicio_id, rutas)

\* validar_solucion finds nothing to report on rutas
SinErrores(rutas) ==
    validar_solucion(puntos, punto_inicio_id, capacidad_vehiculo,
                     num_vehiculos, rutas) = [es_valida |-> TRUE, errores |-> <<>>]

CapacidadIgualADemanda ==
    capacidad_vehiculo = SumSeq([k \in 1..Len(puntos) |-> puntos[k].demanda])

\* C17: with a fleet of one, generar_solucion_inicial returns (it raises
\* nothing) exactly one route holding every non-depot point, whatever the
\* capacity; every current and best solution of the search that follows is
\* one route with all the points; and when the capacity equals the total
\* demand validar_solucion reports nothing on the sweep's output nor on the
\* solution ejecutar returns.
C17_FlotaDeUno ==
    (num_vehiculos = 1 /\ EnCorrida) =>
        /\ ~generar_solucion_inicial(puntos, matriz_distancias, capacidad_vehiculo,
                                     num_vehiculos, punto_inicio_id).lanza
        /\ UnaRutaConTodos(SolucionInicial)
        /\ UnaRutaConTodos(solucion_actual)
        /\ UnaRutaConTodos(mejor_solucion)
        /\ CapacidadIgualADemanda =>
              /\ SinErrores(SolucionInicial)
              /\ pc = "hecho" => SinErrores(salida.mejor_solucion)

\* a finished run with one vehicle whose capacity is the total demand: the
\* search moved the current solution away from the sweep's route, and
\* neither it nor the route returned has a violation
C17_Testigo ==
    /\ pc = "hecho"
    /\ num_vehiculos = 1
    /\ CapacidadIgualADemanda
    /\ iteracion >= 2
    /\ solucion_actual # SolucionInicial
    /\ SinErrores(solucion_actual)
    /\ SinErrores(salida.mejor_solucion)

\* C18 as stated: a run set up with temperatura_inicial <= 0 or
\* temperatura_minima <= 0 is rejected before the first trial: it never
\* enters the loop and returns no result; and no trial runs (the acceptance
\* rule is never evaluated) at a temperature <= 0.
C18_TemperaturasRechazadas ==
    /\ (temperatura_inicial[1] <= 0 \/ temperatura_minima[1] <= 0) =>
          pc \notin {"bucle", "hecho"}
    /\ (pc = "bucle" /\ SigueEnfriando(temperatura, temperatura_minima)) =>
          temperatura[1] > 0

\* the candidates the operator intra_swap can return on rutas
ResultadosIntraSwap(rutas) ==
    { generar_vecino(puntos, matriz_distancias, capacidad_vehiculo, rutas, s) :
        s \in SorteosIntraSwap(rutas) }

\* C20 as stated: on a route with two interior points or more intra_swap
\* can exchange any two distinct interior positions, the last interior
\* position included: for each such pair the candidate with exactly those
\* two points exchanged is a possible result (for two interior points, the
\* route with both exchanged).
C20_IntraSwapTodasLasPosiciones ==
    pc = "bucle" =>
        \A r \in 1..Len(solucion_actual) :
            LET ids == solucion_actual[r].puntos
            IN  \A i \in 1..(Len(ids) - 2), j \in 1..(Len(ids) - 2) :
                    i < j =>
                        [solucion_actual EXCEPT ![r] =
                            crear_ruta(puntos, matriz_distancias, Intercambiar(ids, i, j))]
                            \in ResultadosIntraSwap(solucion_actual)

\* the id sequences of a solution's routes
Secuencias(rutas) == [k \in 1..Len(rutas) |-> rutas[k].puntos]

\* the draw s is an inter_swap of two points that would leave one of the
\* two routes above capacity
InterSwapExcede(rutas, s) ==
    /\ s.operador = "inter_swap"
    /\ s.i >= 1
    /\ s.j >= 1
    /\ LET ra == rutas[s.r1 + 1].puntos
           rb == rutas[s.r2 + 1].puntos
       IN  \/ CargaRuta(puntos, [ra EXCEPT ![s.i + 1] = rb[s.j + 1]]) > capacidad_vehiculo
           \/ CargaRuta(puntos, [rb EXCEPT ![s.j + 1] = ra[s.i + 1]]) > capacidad_vehiculo

\* the draw s is a relocate of a point that would leave the destination
\* above capacity
RelocateExcede(rutas, s) ==
    /\ s.operador = "relocate"
    /\ s.i >= 1
    /\ CargaRuta(puntos, rutas[s.r2 + 1].puntos)
          + PuntoDeId(puntos, rutas[s.r1 + 1].puntos[s.i + 1]).demanda
          > capacidad_vehiculo

SorteosActuales ==
    Sorteos(puntos, capacidad_vehiculo, num_vehiculos, solucion_actual)

\* C19: on a solution that satisfies the Solution invariants generar_vecino
\* raises nothing, whichever operator and indices are drawn (every randint
\* range is non-empty and every route it rebuilds can be built); and when
\* the drawn inter_swap would leave either route above capacity, or the
\* drawn relocate the destination, the candidate has exactly the route
\* sequences of the input.
C19_VecinoSinExcepcion ==
    (pc = "bucle" /\ Factible(puntos, punto_inicio_id, capacidad_vehiculo,
                              num_vehiculos, solucion_actual)) =>
        /\ \A rango \in RangosDeSorteo(puntos, capacidad_vehiculo, num_vehiculos,
                                       solucion_actual) : rango[1] <= rango[2]
        /\ \A s \in SorteosActuales :
              LET v == generar_vecino(puntos, matriz_distancias, capacidad_vehiculo,
                                      solucion_actual, s)
              IN  /\ \A k \in 1..Len(v) :
                         ~ReconstruccionLanza(puntos, matriz_distancias, v[k].puntos)
                  /\ (InterSwapExcede(solucion_actual, s)
                         \/ RelocateExcede(solucion_actual, s)) =>
                        Secuencias(v) = Secuencias(solucion_actual)

\* after a trial, a feasible current solution on which some inter_swap draw
\* and some relocate draw would go above capacity
C19_Testigo ==
    /\ pc = "bucle"
    /\ iteracion >= 1
    /\ Factible(puntos, punto_inicio_id, capacidad_vehiculo, num_vehiculos,
                solucion_actual)
    /\ \E s \in SorteosActuales : InterSwapExcede(solucion_actual, s)
    /\ \E s \in SorteosActuales : RelocateExcede(solucion_actual, s)

\* the draw of consolidate, when the operator list of the current solution
\* offers it
SorteosConsolidate == { s \in SorteosActuales : s.operador = "consolidate" }

\* the positions k of a ranking (a sequence of 0-based route indices) whose
\* routes k and k + 1 fit together in one vehicle
ParesDelOrden(rutas, orden) ==
    { k \in 1..(Len(rutas) - 1) :
        rutas[orden[k] + 1].carga + rutas[orden[k + 1] + 1].carga
            <= capacidad_vehiculo }

\* the routes of rutas other than those of 0-based indices a and b, in order
RutasRestantes(rutas, a, b) ==
    LET S == (1..Len(rutas)) \ {a + 1, b + 1}
    IN  [k \in 1..Cardinality(S) |->
            rutas[CHOOSE x \in S : Cardinality({y \in S : y < x}) = k - 1]]

\* C21: when consolidate is drawn on a solution of two routes or more, the
\* routes are ranked by ascending load and the first adjacent pair of the
\* ranking whose combined load is within capacity is merged: the candidate
\* has one route fewer, the merged route is the depot, the interior of the
\* lighter route, the interior of the next one and the depot, and every
\* other route is unchanged; when no adjacent pair fits, the candidate is
\* the input.
C21_ConsolidaPrimerParQueCabe ==
    (pc = "bucle" /\ Len(solucion_actual) >= 2) =>
        \A s \in SorteosConsolidate :
            LET rutas == solucion_actual
                n     == Len(rutas)
                v     == generar_vecino(puntos, matriz_distancias,
                                        capacidad_vehiculo, rutas, s)
                orden == OrdenPorCarga(rutas)
                caben == ParesDelOrden(rutas, orden)
            IN  /\ \A k \in 1..(n - 1) :
                       rutas[orden[k] + 1].carga <= rutas[orden[k + 1] + 1].carga
                /\ { orden[k] : k \in 1..n } = 0..(n - 1)
                /\ caben = {} => v = rutas
                /\ caben # {} =>
                      LET i  == CHOOSE k \in caben : \A x \in caben : k <= x
                          ra == rutas[orden[i] + 1]
                          rb == rutas[orden[i + 1] + 1]
                      IN  /\ Len(v) = n - 1
                          /\ v[n - 1].puntos =
                                <<punto_inicio_id>> \o Interior(ra.puntos)
                                    \o Interior(rb.puntos) \o <<punto_inicio_id>>
                          /\ v[n - 1].carga = ra.carga + rb.carga
                          /\ SubSeq(v, 1, n - 2) =
                                RutasRestantes(rutas, orden[i], orden[i + 1])

\* after a trial, a current solution of three routes on which consolidate is
\* offered and merges two routes of different interiors, leaving a third
C21_Testigo ==
    /\ pc = "bucle"
    /\ iteracion >= 1
    /\ Len(solucion_actual) >= 3
    /\ SorteosConsolidate # {}
    /\ LET orden == OrdenPorCarga(solucion_actual)
       IN  /\ ParesDelOrden(solucion_actual, orden) # {}
           /\ solucion_actual[orden[1] + 1].puntos
                 # solucion_actual[orden[2] + 1].puntos

\* floor(0.7 * nv)
PisoSetentaPorCiento(nv) == (7 * nv) \div 10

\* C22: consolidate is applied only when the route count is above 70% of
\* the fleet size, and, consolidate being the only operator that removes a
\* route, the route count never falls below the smaller of the route count
\* of the solution the operators started from and floor(0.7 * fleet size):
\* stated on one call of generar_vecino.
C22_RutasSobreElPiso ==
    pc = "vecino" =>
        /\ \/ Len(salida) >= Len(entrada)
           \/ Len(salida) >= PisoSetentaPorCiento(num_vehiculos)
        /\ Len(salida) < Len(entrada) => 10 * Len(entrada) > 7 * num_vehiculos

\* C23: whatever iteraciones_por_temperatura >= 1 is, the progress callback
\* is not invoked after every trial: in a run of more than one trial that
\* is given a callback, at least one trial is followed by no call (the
\* calls made inside the loop, i.e. all but the final one, are fewer than
\* the trials).
C23_CallbackEspaciado ==
    (pc = "hecho" /\ callback_progreso /\ iteracion > 1) =>
        Len(llamadas) - 1 < iteracion

\* the costs the initial solution can have over the configurations of Init
CostosDePartida ==
    { calcular_costo_total(
          generar_solucion_inicial(PuntosEnCruz(d),
                                   calcular_matriz_distancias(PuntosEnCruz(d)),
                                   cap, nv, 0).rutas) :
      d \in DemandasEnCruz, cap \in CapacidadesEnCruz, nv \in 1..MaxVehiculos }

NoEmpeoraCarga(rutas, v, k) ==
    \/ v[k].carga <= capacidad_vehiculo
    \/ \E j \in 1..Len(rutas) :
          /\ Len(v) = Len(rutas) => j = k
          /\ rutas[j].carga > capacidad_vehiculo
          /\ v[k].carga <= rutas[j].carga

\* C25: no operator creates or worsens a capacity violation: every route of
\* a candidate has a load within capacity or is an input route that was
\* already above capacity and whose load has not increased; hence, when the
\* initial solution is within capacity, so are the current and the best
\* solution throughout the run.
C25_OperadoresRespetanCapacidad ==
    EnCorrida =>
        /\ pc = "bucle" =>
              \A s \in SorteosActuales :
                  LET v == generar_vecino(puntos, matriz_distancias,
                                          capacidad_vehiculo, solucion_actual, s)
                  IN  \A k \in 1..Len(v) : NoEmpeoraCarga(solucion_actual, v, k)
        /\ CargasDentro(capacidad_vehiculo, SolucionInicial) =>
              /\ CargasDentro(capacidad_vehiculo, solucion_actual)
              /\ CargasDentro(capacidad_vehiculo, mejor_solucion)

\* after a trial, a current solution within capacity that differs from the
\* initial one and on which some relocate draw finds the destination full
C25_Testigo ==
    /\ pc = "bucle"
    /\ iteracion >= 1
    /\ CargasDentro(capacidad_vehiculo, SolucionInicial)
    /\ solucion_actual # SolucionInicial
    /\ \E s \in SorteosActuales : RelocateExcede(solucion_actual, s)

EscalaresAlDia(rutas) ==
    \A k \in 1..Len(rutas) :
        /\ rutas[k].carga = CargaRuta(puntos, rutas[k].puntos)
        /\ rutas[k].distancia = DistanciaRuta(matriz_distancias, rutas[k].puntos)

\* C27: in every state of a run each route of the current solution, of
\* every candidate and of the best solution stores the load that is the sum
\* of the demands of its interior and the distance that is the sum of the
\* table entries along its present sequence, and mejor_costo is the sum of
\* the distances stored in mejor_solucion.
C27_EscalaresAlDia ==
    EnCorrida =>
        /\ EscalaresAlDia(solucion_actual)
        /\ EscalaresAlDia(mejor_solucion)
        /\ mejor_costo = calcular_costo_total(mejor_solucion)
        /\ pc = "bucle" =>
              \A s \in SorteosActuales :
                  EscalaresAlDia(generar_vecino(puntos, matriz_distancias,
                                                capacidad_vehiculo, solucion_actual, s))

\* after trials, a best solution found during the run with a route of three
\* interior points or more whose order differs from the sweep's
C27_Testigo ==
    /\ pc = "bucle"
    /\ iteracion >= 2
    /\ mejor_costo < calcular_costo_total(SolucionInicial)
    /\ \E k \in 1..Len(mejor_solucion) : Len(mejor_solucion[k].puntos) >= 5
    /\ \E s \in SorteosActuales : s.operador = "two_opt" /\ s.j > s.i

\* ids starts and ends with the depot id, has no depot id in between and
\* has at least one interior point
FormaDeRuta(ids) ==
    /\ Len(ids) >= 3
    /\ ids[1] = punto_inicio_id
    /\ ids[Len(ids)] = punto_inicio_id
    /\ \A k \in 2..(Len(ids) - 1) : ids[k] # punto_inicio_id

RutasBienFormadas(rutas) ==
    \A k \in 1..Len(rutas) : FormaDeRuta(rutas[k].puntos)

\* C28: every route of the sweep's output and of every solution the
\* operators reach starts and ends with the depot id, has no depot id in
\* its interior and has at least one interior point; in particular
\* relocate leaves a point in its source and inserts between the endpoints
\* of its destination, and intra_swap and two_opt leave both endpoints of
\* the route they permute.
C28_RutasBienFormadas ==
    EnCorrida =>
        /\ RutasBienFormadas(SolucionInicial)
        /\ RutasBienFormadas(solucion_actual)
        /\ RutasBienFormadas(mejor_solucion)
        /\ pc = "bucle" =>
              \A s \in SorteosActuales :
                  LET v == generar_vecino(puntos, matriz_distancias,
                                          capacidad_vehiculo, solucion_actual, s)
                  IN  /\ RutasBienFormadas(v)
                      /\ s.operador \in {"intra_swap", "two_opt"} =>
                            /\ Len(v) = Len(solucion_actual)
                            /\ \A k \in 1..Len(v) :
                                  /\ Len(v[k].puntos) = Len(solucion_actual[k].puntos)
                                  /\ v[k].puntos[1] = solucion_actual[k].puntos[1]
                                  /\ v[k].puntos[Len(v[k].puntos)]
                                        = solucion_actual[k].puntos[Len(v[k].puntos)]
                      /\ (s.operador = "relocate" /\ s.i >= 1 /\ s.pos >= 1) =>
                            /\ Len(v[s.r1 + 1].puntos)
                                  = Len(solucion_actual[s.r1 + 1].puntos) - 1
                            /\ \E q \in 2..Len(solucion_actual[s.r2 + 1].puntos) :
                                  v[s.r2 + 1].puntos[q]
                                     = solucion_actual[s.r1 + 1].puntos[s.i + 1]

\* after a trial, a current solution that differs from the sweep's and on
\* which a relocate draw moves a point, to the last place before the depot
\* of its destination among others, and a two_opt draw reverses a segment
C28_Testigo ==
    /\ pc = "bucle"
    /\ iteracion >= 1
    /\ solucion_actual # SolucionInicial
    /\ \E s \in SorteosActuales :
          /\ s.operador = "relocate"
          /\ s.pos = Len(solucion_actual[s.r2 + 1].puntos) - 1
          /\ s.pos >= 1
    /\ \E s \in SorteosActuales : s.operador = "two_opt" /\ s.j > s.i

\* C29: at the end of every run the number of trials executed, which is
\* estadisticas['iteraciones_totales'] and the iteration index of the final
\* callback, equals the total computed in advance by simulating the
\* cooling schedule; so iteracion / total * 100 is never above 100 during
\* the run and is 100 exactly on the last trial (no trial follows the one
\* that reaches the total).
C29_TotalPrecalculadoExacto ==
    /\ EnCorrida => iteracion <= total_iteraciones
    /\ \A k \in 1..Len(llamadas) :
          llamadas[k].iteracion * 100 <= 100 * llamadas[k].total_iteraciones
    /\ (pc = "bucle" /\ iteracion = total_iteraciones) =>
          \/ paso = 0 /\ ~SigueEnfriando(temperatura, temperatura_minima)
          \/ /\ paso = iteraciones_por_temperatura
             /\ ~SigueEnfriando(FracPor(temperatura, factor_enfriamiento),
                                temperatura_minima)
    /\ pc = "hecho" =>
          /\ iteracion = total_iteraciones
          /\ salida.estadisticas.iteraciones_totales = total_iteraciones
          /\ callback_progreso =>
                llamadas[Len(llamadas)].iteracion = total_iteraciones

\* a finished run of two stages with a callback: the call before the final
\* one came from the last trial, at the total
C29_Testigo ==
    /\ pc = "hecho"
    /\ callback_progreso
    /\ total_iteraciones = 2 * iteraciones_por_temperatura
    /\ iteraciones_por_temperatura >= 2
    /\ Len(llamadas) >= 3
    /\ llamadas[Len(llamadas) - 1].iteracion = total_iteraciones
    /\ llamadas[Len(llamadas) - 2].iteracion < total_iteraciones

\* a sequence of numbers that never increases
NoCreciente(h) == \A k \in 1..(Len(h) - 1) : h[k] >= h[k + 1]

\* a sequence of temperatures that never increases
NoCrecienteFrac(h) == \A k \in 1..(Len(h) - 1) : ~FracMayor(h[k + 1], h[k])

\* the histories hc, ht hold the records of a run of n trials and nothing
\* else: one record per stats_frecuencia trials, the first one at the
\* initial temperature
SoloDeEstaCorrida(hc, ht, n) ==
    /\ Len(hc) = n \div stats_frecuencia(iteraciones_por_temperatura)
    /\ Len(ht) = Len(hc)
    /\ ht # <<>> => FracIgual(ht[1], temperatura_inicial)

\* C30: the cost and temperature histories are emptied at the start of
\* every call of ejecutar: the histories a second run on the same engine
\* returns hold the records of that run only, and the value the first run
\* returned is not changed; within a run the two histories have the same
\* length and neither the cost history nor the temperature history ever
\* increases.
C30_HistorialesPorCorrida ==
    /\ [](EnCorrida =>
            /\ Len(historial_costos) = Len(historial_temperaturas)
            /\ NoCreciente(historial_costos)
            /\ NoCrecienteFrac(historial_temperaturas)
            /\ SoloDeEstaCorrida(historial_costos, historial_temperaturas, iteracion))
    /\ [](pc = "hecho" =>
            /\ salida.estadisticas.historial_costos = historial_costos
            /\ salida.estadisticas.historial_temperaturas = historial_temperaturas
            /\ SoloDeEstaCorrida(salida.estadisticas.historial_costos,
                                 salida.estadisticas.historial_temperaturas,
                                 salida.estadisticas.iteraciones_totales))
    /\ [][SubSeq(entrada', 1, Len(entrada)) = entrada]_vars

\* a second run has ended; both runs recorded entries, and the second run's
\* first record is a cost above the last one of the first run
C30_Testigo ==
    /\ pc = "hecho"
    /\ Len(entrada) = 1
    /\ Len(entrada[1].estadisticas.historial_costos) >= 2
    /\ Len(salida.estadisticas.historial_costos) >= 2
    /\ salida.estadisticas.historial_costos[1]
          > entrada[1].estadisticas.historial_costos[
                Len(entrada[1].estadisticas.historial_costos)]
    /\ salida.estadisticas.historial_costos[2]
          < salida.estadisticas.historial_costos[1]
====
